---- MODULE Spec2Model ----
(***************************************************************************)
(* A model of fx-serialize (FoXtrot Serialized Data): the type-id          *)
(* registry, the fixed-capacity section buffers, the type section, the     *)
(* data section, the value-level serialize/deserialize dispatch and the    *)
(* file container (WriteToFile / ReadFromFile).                            *)
(*                                                                         *)
(* Representation of machine values:                                       *)
(*   uint8, uint16   a natural number below 2^8, 2^16                      *)
(*   uint32          a pair <<hi, lo>> of its two 16-bit halves            *)
(*   int32           an integer in -2^31 .. 2^31-1                         *)
(*   float32         <<hi, lo, half>>: the non-negative value              *)
(*                   hi*2^16 + lo + half/2 (hi may be 2^16 for 2^32)       *)
(*   std::string     the sequence of its bytes                             *)
(*   an aggregate    the sequence of its members' values, declared order   *)
(* The build modelled is the documented one (README: cc -std=c++20),       *)
(* which keeps assert() enabled: a failed assertion aborts the process.    *)
(***************************************************************************)
EXTENDS Integers, Sequences, FiniteSets, TLC

VARIABLES
    SerializeTypeIdCount,  \* FxSerializeUtil::SerializeTypeIdCount (uint16)
    tid,                   \* the static local `tid` of each GetTypeId_<T>
    otherTypes,            \* further distinct types instantiated: runs of ids
    requested,             \* history: the GetTypeId requests made directly
    writer,                \* the FxSerializerIO that records are written to
    reader,                \* the FxSerializerIO that a file is loaded into
    file,                  \* the file on disk
    written,               \* history: the records WriteTo was called with
    persisted,             \* history: what the last WriteToFile saw
    lastLoad,              \* history: the last ReadFromFile
    lastRead,              \* history: the last ReadFrom
    section,               \* a section buffer written to directly
    lookup,                \* history: the last type-section lookup
    threads,               \* two threads inside their first GetTypeId_
    scan                   \* a lookup in progress, one step at a time

vars == <<SerializeTypeIdCount, tid, otherTypes, requested, writer, reader, file,
          written, persisted, lastLoad, lastRead, section, lookup, threads,
          scan>>

-----------------------------------------------------------------------------
(* Bounds of the model *)

MaxRecords == 2      \* WriteTo calls on the writer
MaxReads == 2        \* ReadFrom calls on the reader
SmallCap == 26       \* the small buffer_size a FxSerializerIO may be built with
MaxBatches == 2      \* runs of further distinct types in the registry model
MaxWrites == 4       \* direct writes to a section buffer
MaxLookups == 1      \* FindIndexFromTypeId and ReadType calls

(* Program constants *)

DefaultCap == 10000          \* FxSerializerIO(uint32 buffer_size=10'000)
TypeIdentHeader == 239       \* 0xEF
TypeIdentFooter == 190       \* 0xBE
DataIdentHeader == 11        \* 0x0B
DataIdentFooter == 176       \* 0xB0
TwoTo8 == 256
TwoTo16 == 65536

Uninit == -1                 \* a byte of the malloc'ed buffer never stored to
Unassigned == -1             \* a static local `tid` not yet initialised

\* Values an uninitialised byte may turn out to hold when it is read.
UninitBytes == {0, DataIdentHeader}

-----------------------------------------------------------------------------
(* The user's types: the inputs of the library *)

PrimTypes == {"int32", "float32", "string"}
AggTypes == {"TestStructB", "IntNest", "TestStructA", "ExampleStruct"}
Types == PrimTypes \cup AggTypes

\* The member list each aggregate hands to FX_SERIALIZABLE_MEMBERS.
Members(T) ==
    CASE T = "TestStructB" -> <<"int32", "int32">>
      [] T = "IntNest" -> <<"int32", "TestStructB", "int32">>
      [] T = "TestStructA" -> <<"int32", "int32", "float32", "TestStructB">>
      [] T = "ExampleStruct" -> <<"int32", "float32", "string">>
      [] OTHER -> <<>>

\* concept C_IsSerializable: T has WriteTo(0, writer).
C_IsSerializable(T) == T \in AggTypes

\* sizeof(T) (x86-64, libstdc++), including the uint16 SerializerTypeId_.
SizeOf(T) ==
    CASE T = "int32" -> 4
      [] T = "float32" -> 4
      [] T = "string" -> 32
      [] T = "TestStructB" -> 12
      [] T = "IntNest" -> 24
      [] T = "TestStructA" -> 28
      [] T = "ExampleStruct" -> 48

F(whole, half) == <<0, whole, half>>

\* The values the model writes.
Values(T) ==
    CASE T = "TestStructB" -> {<<-1, 70000>>}
      [] T = "IntNest" -> {<<70000, <<-1, 10>>, -2>>}
      [] T = "TestStructA" -> {<<30, 15, F(3, 0), <<5, 10>>>>,
                               <<-1, 70000, F(3, 1), <<5, 10>>>>}
      [] T = "ExampleStruct" -> {<<10, F(20, 0), <<104, 105>>>>}

\* A destination before it is read into.
RECURSIVE Fresh(_)
Fresh(T) ==
    CASE T = "int32" -> 0
      [] T = "float32" -> F(0, 0)
      [] T = "string" -> <<>>
      [] OTHER -> [i \in 1..Len(Members(T)) |-> Fresh(Members(T)[i])]

\* FxHashStr("TestStructA") = 0x4024DCD3, FxHashStr("Example") = 0x12931341.
HashTestStructA == <<16420, 56531>>
HashExample == <<4755, 4929>>
NoHash == <<0, 0>>
Hashes == {NoHash, HashTestStructA, HashExample}
\* The name hashes the model writes records under.
WrittenHashes == {NoHash, HashTestStructA}

-----------------------------------------------------------------------------
(* Conversions *)

\* static_cast<uint32>(int32)
U32OfInt32(v) == <<((v - (v % TwoTo16)) \div TwoTo16) % TwoTo16, v % TwoTo16>>

\* int32 = uint32
Int32OfU32(u) ==
    IF u[1] >= 32768 THEN (u[1] - TwoTo16) * TwoTo16 + u[2]
    ELSE u[1] * TwoTo16 + u[2]

\* static_cast<uint32>(float32): the fraction is discarded.
U32OfFloat(f) == <<f[1], f[2]>>

Pow2(n) == CASE n = 0 -> 1 [] n = 1 -> 2 [] n = 2 -> 4 [] n = 3 -> 8
             [] n = 4 -> 16 [] n = 5 -> 32 [] n = 6 -> 64 [] n = 7 -> 128
             [] n = 8 -> 256

\* float32 = uint32: exact below 2^24, else rounded to 24 significant bits
\* (to nearest, ties to even).
FloatOfU32(u) ==
    IF u[1] < TwoTo8 THEN <<u[1], u[2], 0>>
    ELSE LET s == CHOOSE k \in 1..8 : u[1] < TwoTo8 * Pow2(k)
                                      /\ u[1] >= 128 * Pow2(k)
             q == Pow2(s)
             r == u[2] % q
             base == u[2] - r
             up == r * 2 > q \/ (r * 2 = q /\ (base \div q) % 2 = 1)
             lo == IF up THEN base + q ELSE base
         IN  IF lo = TwoTo16 THEN <<u[1] + 1, 0, 0>> ELSE <<u[1], lo, 0>>

-----------------------------------------------------------------------------
(* FxSerializeUtil: the type-id registry.  reg = [Count, tid] *)

Registry == [Count |-> SerializeTypeIdCount, tid |-> tid]

\* A type as it is named at a call site: T, const T, T&, const T&.
Qualified == [base : Types, const : BOOLEAN, ref : BOOLEAN]
Plain(T) == [base |-> T, const |-> FALSE, ref |-> FALSE]
ConstRef(T) == [base |-> T, const |-> TRUE, ref |-> TRUE]
Ref(T) == [base |-> T, const |-> FALSE, ref |-> TRUE]
Const(T) == [base |-> T, const |-> TRUE, ref |-> FALSE]

\* GetTypeId_ with `tid = SerializeTypeIdCount++`.
GetTypeId_PostIncrement(reg, q) ==
    IF reg.tid[q] # Unassigned THEN reg
    ELSE [Count |-> (reg.Count + 1) % TwoTo16,
          tid |-> [reg.tid EXCEPT ![q] = reg.Count]]

\* GetTypeId_<T>(): `static uint16 tid = ++SerializeTypeIdCount;` runs once
\* per instantiation; the uint16 counter wraps.
GetTypeId_(reg, q) ==
    IF reg.tid[q] # Unassigned THEN reg
    ELSE LET next == (reg.Count + 1) % TwoTo16
         IN  [Count |-> next, tid |-> [reg.tid EXCEPT ![q] = next]]

\* ++SerializeTypeIdCount read-modify-writing the counter in one step: the
\* value stored follows the counter as it is, not the value loaded earlier.
StoreTypeIdAtomic(reg, q, value) ==
    [Count |-> (reg.Count + 1) % TwoTo16,
     tid |-> [reg.tid EXCEPT ![q] = (reg.Count + 1) % TwoTo16]]

\* The second half of `static uint16 tid = ++SerializeTypeIdCount` in a
\* thread that has loaded `value` from the counter: the incremented value is
\* stored to the counter and initialises tid.
StoreTypeId(reg, q, value) ==
    [Count |-> (value + 1) % TwoTo16,
     tid |-> [reg.tid EXCEPT ![q] = (value + 1) % TwoTo16]]

\* GetTypeId without the stripping of qualifiers.
KeepConstRef(q) == q

\* std::remove_const_t<std::remove_reference_t<T>>
RemoveConstRef(q) == [q EXCEPT !.ref = FALSE, !.const = FALSE]

\* GetTypeId<T>()
GetTypeId(reg, q) == GetTypeId_(reg, RemoveConstRef(q))

\* The id GetTypeId<T>() returns once it has run.
TypeIdOf(reg, q) == reg.tid[RemoveConstRef(q)]

\* Constructing an object of aggregate type T initialises its members in
\* declared order and then its SerializerTypeId_ (declared by the macro after
\* the members).
RECURSIVE Construct(_, _), ConstructMembers(_, _, _)
ConstructMembers(reg, T, i) ==
    IF i > Len(Members(T)) THEN reg
    ELSE ConstructMembers(IF C_IsSerializable(Members(T)[i])
                          THEN Construct(reg, Members(T)[i]) ELSE reg,
                          T, i + 1)
Construct(reg, T) == GetTypeId(ConstructMembers(reg, T, 1), Ref(T))

-----------------------------------------------------------------------------
(* FxSerializerBaseSection.  sec = [Data, Index, Size, Overran, Aborted]:   *)
(* Data holds the bytes stored so far (Uninit where none was), Overran      *)
(* tells that bytes were stored outside the buffer, Aborted is set by a     *)
(* failed assert.  Index and Size are uint32; the sums the assertions       *)
(* compare are uint32 sums.                                                 *)

\* FxSerializerBaseSection::Create
Create(buffer_size) ==
    [Data |-> <<>>, Index |-> 0, Size |-> buffer_size,
     Overran |-> FALSE, Aborted |-> FALSE]

PutAt(data, i, v) ==
    IF i < Len(data) THEN [data EXCEPT ![i + 1] = v]
    ELSE data \o [k \in 1..(i - Len(data)) |-> Uninit] \o <<v>>

\* Data[Index++] = value
Store(sec, value) ==
    IF sec.Index < sec.Size
    THEN [sec EXCEPT !.Data = PutAt(@, sec.Index, value), !.Index = @ + 1]
    ELSE [sec EXCEPT !.Overran = TRUE, !.Index = @ + 1]

Write8(sec, value) ==
    IF sec.Aborted THEN sec
    ELSE IF ~(sec.Index < sec.Size) THEN [sec EXCEPT !.Aborted = TRUE]
    ELSE Store(sec, value)

\* Write16 storing the low byte first.
Write16LowFirst(sec, value16) ==
    IF sec.Aborted THEN sec
    ELSE IF ~(sec.Index + 2 <= sec.Size) THEN [sec EXCEPT !.Aborted = TRUE]
    ELSE Store(Store(sec, value16 % TwoTo8), (value16 \div TwoTo8) % TwoTo8)

Write16(sec, value16) ==
    IF sec.Aborted THEN sec
    ELSE IF ~(sec.Index + 2 <= sec.Size) THEN [sec EXCEPT !.Aborted = TRUE]
    ELSE Store(Store(sec, (value16 \div TwoTo8) % TwoTo8), value16 % TwoTo8)

Write32(sec, value32) == Write16(Write16(sec, value32[1]), value32[2])

U32OfIndex(n) == <<n \div TwoTo16, n % TwoTo16>>
IndexOfU32(p) == p[1] * TwoTo16 + p[2]

\* a + b in uint32
Add32(a, b) ==
    <<(a[1] + b[1] + ((a[2] + b[2]) \div TwoTo16)) % TwoTo16,
      (a[2] + b[2]) % TwoTo16>>

\* a <= b in uint32
Le32(a, b) == a[1] < b[1] \/ (a[1] = b[1] /\ a[2] <= b[2])

\* size bytes fit between Index and Size.
InRoom(sec, size) ==
    size[1] < TwoTo16 \div 2 /\ IndexOfU32(size) <= sec.Size - sec.Index

\* The number of bytes memcpy stores inside the buffer.
CopyLen(sec, size) ==
    IF InRoom(sec, size) THEN IndexOfU32(size) ELSE sec.Size - sec.Index

MemcpyN(sec, size, data, n) ==
    [sec EXCEPT
        !.Data = (IF Len(@) >= sec.Index THEN SubSeq(@, 1, sec.Index)
                  ELSE @ \o [k \in 1..(sec.Index - Len(@)) |-> Uninit])
                 \o SubSeq(data, 1, n)
                 \o SubSeq(@, sec.Index + n + 1, Len(@)),
        !.Overran = @ \/ ~InRoom(sec, size),
        !.Index = IndexOfU32(Add32(U32OfIndex(@), size))]

\* memcpy(Data + Index, data, size); Index += size;  `data` holds at least
\* the bytes that land inside the buffer.
Memcpy(sec, size, data) == MemcpyN(sec, size, data, CopyLen(sec, size))

\* WriteBuffer(uint32 size, const uint8* data)
WriteBuffer(sec, size, data) ==
    IF sec.Aborted THEN sec
    ELSE IF ~Le32(Add32(U32OfIndex(sec.Index), size), U32OfIndex(sec.Size))
    THEN [sec EXCEPT !.Aborted = TRUE]
    ELSE Memcpy(sec, size, data)

\* Data[i], an uninitialised byte reading as u.
ByteAt(sec, i, u) ==
    IF i < Len(sec.Data) /\ sec.Data[i + 1] # Uninit THEN sec.Data[i + 1] ELSE u

\* The read functions return [sec, v]: the section after the read, the value.
Read8(sec, u) ==
    IF sec.Aborted THEN [sec |-> sec, v |-> 0]
    ELSE IF ~(sec.Index + 1 <= sec.Size)
    THEN [sec |-> [sec EXCEPT !.Aborted = TRUE], v |-> 0]
    ELSE [sec |-> [sec EXCEPT !.Index = @ + 1], v |-> ByteAt(sec, sec.Index, u)]

Read16(sec, u) ==
    IF sec.Aborted THEN [sec |-> sec, v |-> 0]
    ELSE IF ~(sec.Index + 2 <= sec.Size)
    THEN [sec |-> [sec EXCEPT !.Aborted = TRUE], v |-> 0]
    ELSE [sec |-> [sec EXCEPT !.Index = @ + 2],
          v |-> ByteAt(sec, sec.Index, u) * TwoTo8
                + ByteAt(sec, sec.Index + 1, u)]

\* Read16() << 16 | Read16(), the left operand evaluated first.
Read32Low(hiv, lo) == [sec |-> lo.sec, v |-> <<hiv, lo.v>>]
Read32High(hi, u) == Read32Low(hi.v, Read16(hi.sec, u))
Read32(sec, u) == Read32High(Read16(sec, u), u)

-----------------------------------------------------------------------------
(* FxSerializerTypeSection.  The operators below work on w = [reg, io]:     *)
(* the registry and one FxSerializerIO, io = [TypeSection, DataSection],    *)
(* where TypeSection also carries mRegisteredTypeIds.                       *)

NewIO(buffer_size) ==
    [TypeSection |-> Create(buffer_size) @@ [mRegisteredTypeIds |-> <<>>],
     DataSection |-> Create(buffer_size)]

Aborted(w) == w.io.TypeSection.Aborted \/ w.io.DataSection.Aborted

\* IsTypePreviouslyWritten finding nothing.
NeverPreviouslyWritten(ts, type_id) == FALSE

IsTypePreviouslyWritten(ts, type_id) ==
    \E k \in 1..Len(ts.mRegisteredTypeIds) : ts.mRegisteredTypeIds[k].Id = type_id

\* write_member_func over args: GetTypeId<decltype(args)>(), then size, id.
WriteMember(w, K) ==
    [w EXCEPT !.io.TypeSection =
        Write16(Write16(@, SizeOf(K) % TwoTo16), TypeIdOf(w.reg, ConstRef(K)))]

RECURSIVE WriteMemberList(_, _, _)
WriteMemberList(w, args, i) ==
    IF i > Len(args) \/ Aborted(w) THEN w
    ELSE WriteMemberList(
             WriteMember([w EXCEPT !.reg = GetTypeId(@, ConstRef(args[i]))],
                         args[i]),
             args, i + 1)

\* mRegisteredTypeIds.emplace_back(TypeEntry{ type_id, start_offset })
RegisterType(ts, type_id, start_offset) ==
    IF ts.Aborted THEN ts
    ELSE [ts EXCEPT !.mRegisteredTypeIds =
             Append(@, [Id |-> type_id, Offset |-> start_offset])]

WriteTypeWithoutChecks(w, type_id, type_size, args) ==
    IF Aborted(w) \/ IsTypePreviouslyWritten(w.io.TypeSection, type_id) THEN w
    ELSE [WriteMemberList(
              [w EXCEPT !.io.TypeSection =
                  Write8(Write16(Write16(Write8(@, TypeIdentHeader), type_id),
                                 type_size % TwoTo16),
                         Len(args) % TwoTo8)],
              args, 1)
          EXCEPT !.io.TypeSection =
              RegisterType(Write8(@, TypeIdentFooter), type_id,
                           w.io.TypeSection.Index)]

RECURSIVE WriteTypeForTypeId(_, _), WriteTypeAndMembers(_, _),
          WriteTypesOfMembers(_, _, _), WriteTypeOf(_, _)

\* (WriteTypeForTypeId<std::remove_reference_t<decltype(args)>>(writer), ...)
WriteTypesOfMembers(w, args, i) ==
    IF i > Len(args) \/ Aborted(w) THEN w
    ELSE WriteTypesOfMembers(WriteTypeForTypeId(w, Const(args[i])), args, i + 1)

\* WriteTypeAndMembers writing the entry of T before those of its members.
WriteTypeThenMembers(w, T) ==
    IF Aborted(w)
       \/ IsTypePreviouslyWritten(w.io.TypeSection, TypeIdOf(w.reg, Plain(T)))
    THEN w
    ELSE WriteTypesOfMembers(
             WriteTypeWithoutChecks(w, TypeIdOf(w.reg, Plain(T)), SizeOf(T),
                                    Members(T)),
             Members(T), 1)

\* WriteTypeAndMembers(writer, SerializerTypeId_, sizeof(*this), members...)
\* as WriteTypeTo of an object of type T calls it.
WriteTypeAndMembers(w, T) ==
    IF Aborted(w)
       \/ IsTypePreviouslyWritten(w.io.TypeSection, TypeIdOf(w.reg, Plain(T)))
    THEN w
    ELSE WriteTypeWithoutChecks(WriteTypesOfMembers(w, Members(T), 1),
                                TypeIdOf(w.reg, Plain(T)), SizeOf(T), Members(T))

WriteTypeOf(w, q) ==
    IF IsTypePreviouslyWritten(w.io.TypeSection, TypeIdOf(w.reg, q)) THEN w
    ELSE IF C_IsSerializable(q.base)
    THEN \* T t_instance{ }; t_instance.WriteTypeTo(writer);
         WriteTypeAndMembers([w EXCEPT !.reg = Construct(@, q.base)], q.base)
    ELSE WriteTypeWithoutChecks(w, TypeIdOf(w.reg, q), SizeOf(q.base), <<>>)

WriteTypeForTypeId(w, q) == WriteTypeOf([w EXCEPT !.reg = GetTypeId(@, q)], q)

\* WriteTypeTo(writer) of an object of type T
WriteTypeTo(w, T) == WriteTypeAndMembers(w, T)

\* FindIndexFromTypeId returns [sec, index, log, aborted]: the section
\* after the call, the uint32 it returns, what it printed, and whether an
\* assert of a read stopped the program.
LookupAborted(sec, log) ==
    [sec |-> sec, index |-> 0, log |-> log, aborted |-> TRUE, again |-> FALSE]

\* The loop has been left, by a break or by its condition.
LookupResult(sec, entry_index, log) ==
    [sec |-> sec, index |-> entry_index, log |-> log, aborted |-> FALSE,
     again |-> FALSE]

\* The end of the loop body has been reached: the condition is tested again.
LookupAgain(sec, entry_index, log) ==
    [sec |-> sec, index |-> entry_index, log |-> log, aborted |-> FALSE,
     again |-> TRUE]

\* return entry_index;
Returned(r) ==
    [sec |-> r.sec, index |-> r.index, log |-> r.log, aborted |-> r.aborted]

\* The scope ending with Index left where the function put it.
NotReverted(r, old_index_) == r

\* REVERT_INDEX_AFTER_SCOPE: the destructor of the FxDeferObject runs when
\* the function returns and stores old_index_ to Index; it does not run when
\* an assert stops the program.
Reverted(r, old_index_) ==
    IF r.aborted THEN r ELSE [r EXCEPT !.sec.Index = old_index_]

\* The loop over the members skipping nothing.
SkipNoMembers(sec, n, u) == sec

\* for (i < number_of_members) { Read16(); Read16(); }
RECURSIVE SkipMembers(_, _, _)
SkipMembers(sec, n, u) ==
    IF n = 0 THEN sec
    ELSE SkipMembers(Read16(Read16(sec, u).sec, u).sec, n - 1, u)

FindFooter(f, id, entry_index, log, u) ==
    IF f.sec.Aborted THEN LookupAborted(f.sec, log)
    ELSE IF f.v # TypeIdentFooter
    THEN LookupResult(f.sec, entry_index,
             Append(log, "Sanity footer error when searching for Type ID"))
    ELSE LookupAgain(f.sec, entry_index, log)

FindMembers(n, id, entry_index, log, u) ==
    IF n.sec.Aborted THEN LookupAborted(n.sec, log)
    ELSE FindFooter(Read8(SkipMembers(n.sec, n.v, u), u),
                    id, entry_index, log, u)

FindTypeId(t, id, entry_index, log, u) ==
    IF t.sec.Aborted THEN LookupAborted(t.sec, log)
    ELSE IF t.v = id THEN LookupResult(t.sec, entry_index, log)
    ELSE FindMembers(Read8(Read16(t.sec, u).sec, u), id, entry_index, log, u)

FindHeader(h, id, entry_index, log, u) ==
    IF h.v # TypeIdentHeader
    THEN LookupResult(h.sec, entry_index,
             Append(log, "Sanity header error when searching for Type ID"))
    ELSE FindTypeId(Read16(h.sec, u), id, entry_index, log, u)

\* The body of the loop, once: entry_index = Index; ... up to a break or
\* to the end of the body.
FindTurn(sec, id, log, u) ==
    FindHeader(Read8(sec, u), id, sec.Index, log, u)

\* while (!found_id && Index < Size); entry_index is the value the variable
\* has when the condition is tested.
RECURSIVE FindLoop(_, _, _, _, _)
RECURSIVE FindNext(_, _, _)

FindNext(r, id, u) ==
    IF r.again THEN FindLoop(r.sec, id, r.index, r.log, u) ELSE r

FindLoop(sec, id, entry_index, log, u) ==
    IF ~(sec.Index < sec.Size) THEN LookupResult(sec, entry_index, log)
    ELSE FindNext(FindTurn(sec, id, log, u), id, u)

FindIndexFromTypeId(ts, id, u) ==
    Reverted(Returned(FindLoop([ts EXCEPT !.Index = 0], id, 0, <<>>, u)),
             ts.Index)

\* FxSerializedType: Id, Size and Members, the members being trees as well.
EmptyType == [Id |-> 0, Size |-> 0, Members |-> <<>>]

\* ReadType returns [sec, type, log, aborted]: the section after the call,
\* the tree, what was printed, and whether an assert of a read stopped the
\* program.
TypeAborted(sec, log) ==
    [sec |-> sec, type |-> EmptyType, log |-> log, aborted |-> TRUE]

RECURSIVE ReadType(_, _, _)
RECURSIVE ReadMembers(_, _, _, _, _)
RECURSIVE ReadMemberType(_, _, _, _, _)
RECURSIVE ReadMemberAt(_, _, _, _, _)
RECURSIVE ReadMemberDone(_, _, _, _, _)

ReadTypeFooter(f, type, log) ==
    IF f.sec.Aborted THEN TypeAborted(f.sec, log)
    ELSE [sec |-> f.sec, type |-> type,
          log |-> IF f.v # TypeIdentFooter
                  THEN Append(log, "Sanity footer does not match!")
                  ELSE log,
          aborted |-> FALSE]

\* type.Members.emplace_back(member), then the next turn of the loop, which
\* reads from where the two calls left Index.
ReadMemberDone(n, type, log, u, member) ==
    IF member.aborted THEN TypeAborted(member.sec, log \o member.log)
    ELSE ReadMembers(member.sec, n - 1,
                     [type EXCEPT !.Members = Append(@, member.type)],
                     log \o member.log, u)

ReadMemberAt(n, type, log, u, found) ==
    IF found.aborted THEN TypeAborted(found.sec, log \o found.log)
    ELSE ReadMemberDone(n, type, log \o found.log, u,
                        ReadType(found.sec, found.index, u))

ReadMemberType(m, n, type, log, u) ==
    IF m.sec.Aborted THEN TypeAborted(m.sec, log)
    ELSE ReadMemberAt(n, type, log, u, FindIndexFromTypeId(m.sec, m.v, u))

ReadMembers(sec, n, type, log, u) ==
    IF n = 0 THEN ReadTypeFooter(Read8(sec, u), type, log)
    ELSE ReadMemberType(Read16(Read16(sec, u).sec, u), n, type, log, u)

ReadTypeCount(n, id, size, u) ==
    IF n.sec.Aborted THEN TypeAborted(n.sec, <<>>)
    ELSE ReadMembers(n.sec, n.v,
                     [Id |-> id, Size |-> size, Members |-> <<>>], <<>>, u)

\* type.Size taking the value of type.Id.
ReadTypeSizeAsId(s, id, u) == ReadTypeCount(Read8(s.sec, u), id, id, u)

ReadTypeSize(s, id, u) == ReadTypeCount(Read8(s.sec, u), id, s.v, u)

ReadTypeId(t, u) == ReadTypeSize(Read16(t.sec, u), t.v, u)

ReadTypeHeader(h, u) ==
    IF h.sec.Aborted THEN TypeAborted(h.sec, <<>>)
    ELSE IF h.v # TypeIdentHeader
    THEN [sec |-> h.sec, type |-> EmptyType,
          log |-> <<"Sanity header does not match!">>, aborted |-> FALSE]
    ELSE ReadTypeId(Read16(h.sec, u), u)

ReadType(ts, index, u) ==
    Reverted(ReadTypeHeader(Read8([ts EXCEPT !.Index = index], u), u),
             ts.Index)

-----------------------------------------------------------------------------
(* FxSerializerDataSection and the serializer functions *)

WriteHeader(sec, type_id, name_hash) ==
    Write32(Write16(Write8(sec, DataIdentHeader), type_id), name_hash)

\* WriteFooter writing nothing.
WriteFooterNothing(sec) == sec

WriteFooter(sec) == Write8(sec, DataIdentFooter)

RECURSIVE FxSerializeValue(_, _, _), SerializeMembers(_, _, _, _),
          FxSerializeStruct(_, _, _, _, _), WriteTo(_, _, _, _)

\* (FxSerializeValue<decltype(members)>(writer, members), ...)
SerializeMembers(w, T, members, i) ==
    IF i > Len(Members(T)) \/ Aborted(w) THEN w
    ELSE SerializeMembers(FxSerializeValue(w, Members(T)[i], members[i]),
                          T, members, i + 1)

FxSerializeStruct(w, type_id, name_hash, T, members) ==
    IF Aborted(w) THEN w
    ELSE [SerializeMembers(
              [w EXCEPT !.io.DataSection = WriteHeader(@, type_id, name_hash)],
              T, members, 1)
          EXCEPT !.io.DataSection = WriteFooter(@)]

\* WriteTo(name_hash, writer) of an object `value` of type T, whose
\* SerializerTypeId_ was set when it was constructed.
WriteTo(w, T, value, name_hash) ==
    FxSerializeStruct(WriteTypeTo(w, T), TypeIdOf(w.reg, Plain(T)),
                      name_hash, T, value)

\* FxSerializeValue: the int32, std::string and float32 specializations, the
\* C_IsSerializable overload, and the base template, which writes nothing.
FxSerializeValue(w, K, value) ==
    IF Aborted(w) THEN w
    ELSE CASE K = "int32" ->
                [w EXCEPT !.io.DataSection = Write32(@, U32OfInt32(value))]
           [] K = "string" ->
                [w EXCEPT !.io.DataSection =
                    WriteBuffer(Write16(@, Len(value) % TwoTo16),
                                U32OfIndex(Len(value)), value)]
           [] K = "float32" ->
                [w EXCEPT !.io.DataSection = Write32(@, U32OfFloat(value))]
           [] C_IsSerializable(K) -> WriteTo(w, K, value, NoHash)
           [] OTHER -> w

(* Reading works on r = [sec, dest, log, outcome]: the data section, the     *)
(* destination object, the messages printed so far and how the innermost    *)
(* finished FxDeserializeStruct returned.                                   *)

RECURSIVE FxDeserializeValue(_, _, _, _), DeserializeMembers(_, _, _, _),
          FxDeserializeStruct(_, _, _, _, _, _), ReadFrom(_, _, _, _, _, _)

PutMember(m, dest, i) ==
    [sec |-> m.sec, log |-> m.log, dest |-> [dest EXCEPT ![i] = m.dest]]

\* (FxDeserializeValue(writer, v), ...) over the tuple of member pointers
DeserializeMembers(r, T, i, u) ==
    IF i > Len(Members(T)) \/ r.sec.Aborted THEN r
    ELSE DeserializeMembers(
             PutMember(FxDeserializeValue(r, Members(T)[i], r.dest[i], u),
                       r.dest, i),
             T, i + 1, u)

\* temp = data.Read8(); the footer check
CheckFooter(temp, m) ==
    IF temp.sec.Aborted
    THEN [sec |-> temp.sec, log |-> m.log, dest |-> m.dest, outcome |-> "Aborted"]
    ELSE IF temp.v # DataIdentFooter
    THEN [sec |-> temp.sec, log |-> Append(m.log, "Footer is incorrect!"),
          dest |-> m.dest, outcome |-> "FooterIncorrect"]
    ELSE [sec |-> temp.sec, log |-> m.log, dest |-> m.dest, outcome |-> "Done"]

ReadFooter(m, u) == CheckFooter(Read8(m.sec, u), m)

\* uint32 struct_hash = data.Read32(); the name check; the members
CheckNameHash(struct_hash, log, name_hash, T, dest, u) ==
    IF struct_hash.sec.Aborted
    THEN [sec |-> struct_hash.sec, log |-> log, dest |-> dest,
          outcome |-> "Aborted"]
    ELSE IF struct_hash.v # NoHash /\ struct_hash.v # name_hash
    THEN [sec |-> struct_hash.sec,
          log |-> Append(log, "Name hashes are not equal!"),
          dest |-> dest, outcome |-> "NameMismatch"]
    ELSE ReadFooter(DeserializeMembers([sec |-> struct_hash.sec, log |-> log,
                                        dest |-> dest], T, 1, u), u)

\* The header check with the stored type id compared with the destination's.
CheckHeaderAndTypeId(temp, log, name_hash, T, dest, u) ==
    IF temp.sec.Aborted
    THEN [sec |-> temp.sec, log |-> log, dest |-> dest, outcome |-> "Aborted"]
    ELSE IF temp.v # DataIdentHeader
            \/ Read16(temp.sec, u).v # tid[Plain(T)]
    THEN [sec |-> temp.sec, log |-> Append(log, "Header is incorrect!"),
          dest |-> dest, outcome |-> "HeaderIncorrect"]
    ELSE CheckNameHash(Read32(Read16(temp.sec, u).sec, u),
                       log, name_hash, T, dest, u)

\* temp = data.Read8(); the header check; uint16 type_id = data.Read16()
CheckHeader(temp, log, name_hash, T, dest, u) ==
    IF temp.sec.Aborted
    THEN [sec |-> temp.sec, log |-> log, dest |-> dest, outcome |-> "Aborted"]
    ELSE IF temp.v # DataIdentHeader
    THEN [sec |-> temp.sec, log |-> Append(log, "Header is incorrect!"),
          dest |-> dest, outcome |-> "HeaderIncorrect"]
    ELSE CheckNameHash(Read32(Read16(temp.sec, u).sec, u),
                       log, name_hash, T, dest, u)

\* A read that puts Index back to where it began when a check fails.
Rewound(r, index) ==
    IF r.outcome \in {"HeaderIncorrect", "NameMismatch"}
    THEN [r EXCEPT !.sec.Index = index] ELSE r

FxDeserializeStructRewinding(sec, log, name_hash, T, dest, u) ==
    Rewound(CheckHeader(Read8(sec, u), log, name_hash, T, dest, u), sec.Index)

FxDeserializeStruct(sec, log, name_hash, T, dest, u) ==
    CheckHeader(Read8(sec, u), log, name_hash, T, dest, u)

\* ReadFrom(name_hash, writer) of an object `dest` of type T
ReadFrom(sec, log, name_hash, T, dest, u) ==
    FxDeserializeStruct(sec, log, name_hash, T, dest, u)

SetInt32(x, log, value) ==
    [sec |-> x.sec, log |-> log,
     dest |-> IF x.sec.Aborted THEN value ELSE Int32OfU32(x.v)]

SetFloat32(x, log, value) ==
    [sec |-> x.sec, log |-> log,
     dest |-> IF x.sec.Aborted THEN value ELSE FloatOfU32(x.v)]

SetStruct(x) == [sec |-> x.sec, log |-> x.log, dest |-> x.dest]

\* FxDeserializeValue: the int32* and float32* specializations, the
\* C_IsSerializable overload, and the base template (taken by std::string*),
\* which reads nothing.
FxDeserializeValue(r, K, value, u) ==
    CASE K = "int32" -> SetInt32(Read32(r.sec, u), r.log, value)
      [] K = "float32" -> SetFloat32(Read32(r.sec, u), r.log, value)
      [] C_IsSerializable(K) ->
            SetStruct(ReadFrom(r.sec, r.log, NoHash, K, value, u))
      [] OTHER ->
            [sec |-> r.sec, log |-> Append(r.log, "is not deserializable!"),
             dest |-> value]

-----------------------------------------------------------------------------
(* FxSerializerIO: WriteToFile and ReadFromFile.  A file is the sequence of  *)
(* its bytes; fwrite and fread of a uint32 use the host's byte order.       *)

\* 'FXSD' = 0x46585344 and '.DAT' = 0x2E444154 as multichar constants.
FX_SERIALIZER_IO_FILE_SIGNATURE == <<18008, 21316>>
FX_SERIALIZER_IO_SECTION_DATA_SIGNATURE == <<11844, 16724>>

\* The bytes of a uint32 in memory (little-endian host).
HostBytes(value32) ==
    <<value32[2] % TwoTo8, value32[2] \div TwoTo8,
      value32[1] % TwoTo8, value32[1] \div TwoTo8>>

\* The uint32 that four bytes of memory hold.
HostU32(b) == <<b[4] * TwoTo8 + b[3], b[2] * TwoTo8 + b[1]>>

\* The first n bytes of a section's buffer.
BufferBytes(sec, n) ==
    [k \in 1..n |-> IF k <= Len(sec.Data) THEN sec.Data[k] ELSE Uninit]

\* WriteToFile writing TypeSection.Index as the data section's length too.
WriteToFileTypeLengthTwice(io) ==
    HostBytes(FX_SERIALIZER_IO_FILE_SIGNATURE)
    \o HostBytes(U32OfIndex(io.TypeSection.Index))
    \o BufferBytes(io.TypeSection, io.TypeSection.Index)
    \o HostBytes(FX_SERIALIZER_IO_SECTION_DATA_SIGNATURE)
    \o HostBytes(U32OfIndex(io.TypeSection.Index))
    \o BufferBytes(io.DataSection, io.DataSection.Index)

\* What WriteToFile leaves in the file.
WriteToFile(io) ==
    HostBytes(FX_SERIALIZER_IO_FILE_SIGNATURE)
    \o HostBytes(U32OfIndex(io.TypeSection.Index))
    \o BufferBytes(io.TypeSection, io.TypeSection.Index)
    \o HostBytes(FX_SERIALIZER_IO_SECTION_DATA_SIGNATURE)
    \o HostBytes(U32OfIndex(io.DataSection.Index))
    \o BufferBytes(io.DataSection, io.DataSection.Index)

Min(a, b) == IF a < b THEN a ELSE b

\* fread(ptr, 1, n, fp) at position pos: the bytes it delivers.
FRead(f, pos, n) == SubSeq(f, pos + 1, Min(pos + n, Len(f)))

\* fread(&v, sizeof(uint32), 1, fp) into a uint32 holding `init`.
FReadU32(f, pos, init) ==
    LET got == FRead(f, pos, 4)
    IN  HostU32(got \o SubSeq(HostBytes(init), Len(got) + 1, 4))

\* The number of bytes fread(Data, 1, size, fp) copies (files are shorter
\* than 2^16 bytes).
CopyCount(f, pos, size32) ==
    IF size32[1] > 0 THEN Len(f) - Min(pos, Len(f))
    ELSE Len(FRead(f, pos, size32[2]))

\* fread(sec.Data, 1, size, fp): no comparison with sec.Size is made; the
\* bytes that do not fit are stored past the end of the buffer.
FReadInto(sec, f, pos, size32) ==
    LET n == CopyCount(f, pos, size32)
        got == FRead(f, pos, n)
        fit == Min(n, sec.Size)
    IN  [sec EXCEPT
            !.Data = [k \in 1..(IF fit > Len(@) THEN fit ELSE Len(@)) |->
                         IF k <= fit THEN got[k] ELSE @[k]],
            !.Overran = @ \/ n > fit]

\* ReadFromFile on an open file f; u is what an uninitialised byte holds.
\* Returns [io, log].
ReadFromFile(io, f, u) ==
    LET signature_buffer == FReadU32(f, 0, <<0, 0>>)
        size_of_types == FReadU32(f, 4, <<u * TwoTo8 + u, u * TwoTo8 + u>>)
        types == FReadInto(io.TypeSection, f, 8, size_of_types)
        p1 == 8 + CopyCount(f, 8, size_of_types)
        data_signature == FReadU32(f, p1, <<0, 0>>)
        size_of_data == FReadU32(f, p1 + 4, <<u * TwoTo8 + u, u * TwoTo8 + u>>)
        data == FReadInto(io.DataSection, f, p1 + 8, size_of_data)
    IN  IF signature_buffer # FX_SERIALIZER_IO_FILE_SIGNATURE
        THEN [io |-> io, log |-> <<"File signature is incorrect!">>]
        ELSE IF data_signature # FX_SERIALIZER_IO_SECTION_DATA_SIGNATURE
        THEN [io |-> [io EXCEPT !.TypeSection = types],
              log |-> <<"File data signature is incorrect!">>]
        ELSE [io |-> [io EXCEPT !.TypeSection = types, !.DataSection = data],
              log |-> <<>>]

-----------------------------------------------------------------------------
(* The program: one process that writes records to `writer`, saves it to a   *)
(* file, loads the file into `reader` and reads records back, as the        *)
(* example's main does.                                                     *)

Capacities == {SmallCap, DefaultCap}

NoRead ==
    [n |-> 0, T |-> "", name_hash |-> NoHash, start |-> 0, end |-> 0,
     before |-> <<>>, after |-> <<>>, outcome |-> "", log |-> <<>>]

\* n: the number of distinct types requested so far; ord[T]: T was the
\* ord[T]-th of them (0: not yet requested); first[T]: the id its first
\* request returned; q, id, seen, countBefore, countAfter: the last request,
\* the id it returned, whether its type had been requested before, and the
\* counter before and after it.
NoRequest == [n |-> 0, ord |-> [T \in Types |-> 0], first |-> [T \in Types |-> 0],
              q |-> Plain("int32"), id |-> 0, seen |-> FALSE, countBefore |-> 0,
              countAfter |-> 0]

\* The last FindIndexFromTypeId or ReadType call: the archive it was made
\* on, the argument, and what came back.
NoLookup ==
    [n |-> 0, op |-> "", on |-> "", arg |-> 0, index |-> 0, type |-> EmptyType,
     log |-> <<>>, aborted |-> FALSE, before |-> Create(0)]

\* No thread has been started; pc: where each thread is in
\* `static uint16 tid = ++SerializeTypeIdCount`, T: the type it instantiates
\* GetTypeId_ with, value: the counter value it has loaded.
NoThreads ==
    [started |-> FALSE, pc |-> <<"", "">>, T |-> <<"", "">>, value |-> <<0, 0>>]

\* No lookup is in progress.
NoScan == [pc |-> "idle"]

\* The state after the two archives have been constructed, with a
\* buffer_size from caps.
InitArchives(caps) ==
    /\ SerializeTypeIdCount = 0
    /\ tid = [q \in Qualified |-> Unassigned]
    /\ otherTypes = <<>>
    /\ requested = NoRequest
    /\ writer \in {NewIO(c) : c \in caps}
    /\ reader \in {NewIO(c) : c \in caps}
    /\ file = [exists |-> FALSE, bytes |-> <<>>, damaged |-> FALSE]
    /\ written = <<>>
    /\ persisted = [done |-> FALSE, types |-> <<>>, data |-> <<>>, records |-> <<>>]
    /\ lastLoad = [done |-> FALSE, log |-> <<>>, before |-> reader, next |-> ""]
    /\ lastRead = NoRead
    /\ lookup = NoLookup
    /\ threads = NoThreads
    /\ scan = NoScan

InitProgram == InitArchives(Capacities)

\* text: the last write, when it was FxSerializeValue of a std::string: the
\* offset it began at and the string's length (as a uint32).
NoText == [written |-> FALSE, start |-> 0, size |-> <<0, 0>>]

Init ==
    /\ InitProgram
    /\ section = [sec |-> Create(SmallCap), writes |-> 0, text |-> NoText]

Sections == {writer.TypeSection, writer.DataSection,
             reader.TypeSection, reader.DataSection}

\* The process has been aborted by a failed assert, or has stored outside a
\* buffer, after which nothing is known about what it does.
Dead == \E sec \in Sections : sec.Aborted \/ sec.Overran

Wrote(w1, T, value, name_hash) ==
    /\ writer' = w1.io
    /\ SerializeTypeIdCount' = w1.reg.Count
    /\ tid' = w1.reg.tid
    /\ written' = Append(written,
           [T |-> T, name_hash |-> name_hash, value |-> value,
            start |-> writer.DataSection.Index,
            end |-> w1.io.DataSection.Index])

\* TestStruct data{...}; data.WriteTo(name_hash, writer);
DoWriteTo(T, value, name_hash) ==
    /\ ~Dead
    /\ ~persisted.done
    /\ ~lastLoad.done
    /\ Len(written) < MaxRecords
    /\ Wrote(WriteTo([reg |-> Construct(Registry, T), io |-> writer],
                      T, value, name_hash), T, value, name_hash)
    /\ UNCHANGED <<threads, scan, lookup, section, otherTypes, requested, reader, file, persisted, lastLoad, lastRead>>

\* writer.WriteToFile("Test.fxsd");
DoWriteToFile ==
    /\ ~Dead
    /\ ~persisted.done
    /\ ~lastLoad.done
    /\ file' = [exists |-> TRUE, bytes |-> WriteToFile(writer), damaged |-> FALSE]
    /\ persisted' = [done |-> TRUE,
                     types |-> BufferBytes(writer.TypeSection, writer.TypeSection.Index),
                     data |-> BufferBytes(writer.DataSection, writer.DataSection.Index),
                     records |-> written]
    /\ UNCHANGED <<threads, scan, lookup, section, SerializeTypeIdCount, tid, otherTypes, requested, writer,
                   reader, written, lastLoad, lastRead>>

Loaded(r) ==
    /\ reader' = r.io
    /\ lastLoad' = [done |-> TRUE, log |-> r.log, before |-> reader, next |-> ""]

\* reader.ReadFromFile("Test.fxsd"); once, into the reader as constructed,
\* after which this run writes no more.
DoReadFromFile(u) ==
    /\ ~Dead
    /\ ~lastLoad.done
    /\ Loaded(IF file.exists THEN ReadFromFile(reader, file.bytes, u)
               ELSE [io |-> reader, log |-> <<"Could not open file">>])
    /\ UNCHANGED <<threads, scan, lookup, section, SerializeTypeIdCount, tid, otherTypes, requested, writer,
                   file, written, persisted, lastRead>>

\* The reading code mirrors the writing code, as the example's main does:
\* its k-th ReadFrom is into an object of the type of the k-th record written
\* (of the last one, once there are no more).
ReadTypes ==
    IF persisted.records = <<>> THEN {"TestStructB"}
    ELSE {persisted.records[Min(lastRead.n + 1, Len(persisted.records))].T}

Constructed(reg) ==
    /\ SerializeTypeIdCount' = reg.Count
    /\ tid' = reg.tid

HasRead(r, T, name_hash) ==
    /\ reader' = [reader EXCEPT !.DataSection = r.sec]
    /\ lastRead' = [n |-> lastRead.n + 1, T |-> T, name_hash |-> name_hash,
                    start |-> reader.DataSection.Index, end |-> r.sec.Index,
                    before |-> Fresh(T), after |-> r.dest,
                    outcome |-> r.outcome, log |-> r.log]

\* TestStruct data{}; data.ReadFrom(name_hash, reader);
DoReadFrom(T, name_hash, u) ==
    /\ ~Dead
    /\ lastLoad.done
    /\ lastRead.n < MaxReads
    /\ Constructed(Construct(Registry, T))
    /\ HasRead(ReadFrom(reader.DataSection, <<>>, name_hash, T, Fresh(T), u),
               T, name_hash)
    /\ UNCHANGED <<threads, scan, lookup, section, otherTypes, requested, writer, file, written, persisted, lastLoad>>

Next ==
    \/ \E T \in AggTypes : \E value \in Values(T) : \E name_hash \in WrittenHashes :
          DoWriteTo(T, value, name_hash)
    \/ DoWriteToFile
    \/ \E u \in UninitBytes : DoReadFromFile(u)
    \/ \E T \in ReadTypes : \E name_hash \in Hashes : \E u \in UninitBytes :
          DoReadFrom(T, name_hash, u)

Spec == Init /\ [][Next]_vars

-----------------------------------------------------------------------------
(* A program that goes on with the archive it has loaded: after             *)
(* ReadFromFile it saves the reader, or writes one more record to it.       *)
(* lastLoad.next names which.                                               *)

\* reader.WriteToFile("Test.fxsd"); right after reader.ReadFromFile
DoWriteToFileLoaded ==
    /\ ~Dead
    /\ lastLoad.done
    /\ lastLoad.next = ""
    /\ file' = [exists |-> TRUE, bytes |-> WriteToFile(reader),
                damaged |-> FALSE]
    /\ lastLoad' = [lastLoad EXCEPT !.next = "WriteToFile"]
    /\ UNCHANGED <<threads, scan, lookup, section, SerializeTypeIdCount, tid,
                   otherTypes, requested, writer, reader, written, persisted,
                   lastRead>>

WroteLoaded(w1) ==
    /\ reader' = w1.io
    /\ SerializeTypeIdCount' = w1.reg.Count
    /\ tid' = w1.reg.tid

\* TestStruct data{...}; data.WriteTo(name_hash, reader); right after
\* reader.ReadFromFile
DoWriteToLoaded(T, value, name_hash) ==
    /\ ~Dead
    /\ lastLoad.done
    /\ lastLoad.next = ""
    /\ WroteLoaded(WriteTo([reg |-> Construct(Registry, T), io |-> reader],
                            T, value, name_hash))
    /\ lastLoad' = [lastLoad EXCEPT !.next = "WriteTo"]
    /\ UNCHANGED <<threads, scan, lookup, section, otherTypes, requested,
                   writer, file, written, persisted, lastRead>>

InitReload ==
    /\ Init
    /\ writer = NewIO(DefaultCap)
    /\ reader = NewIO(DefaultCap)

NextReload ==
    \/ \E T \in AggTypes : \E value \in Values(T) :
          DoWriteTo(T, value, HashTestStructA)
    \/ DoWriteToFile
    \/ \E u \in UninitBytes : DoReadFromFile(u)
    \/ DoWriteToFileLoaded
    \/ \E T \in AggTypes : \E value \in Values(T) :
          DoWriteToLoaded(T, value, HashTestStructA)

SpecReload == InitReload /\ [][NextReload]_vars

-----------------------------------------------------------------------------
(* The same program reading a file that was changed on disk after it was    *)
(* saved: one byte of it holds another value.                               *)

\* The offsets in the file of the first byte of the file signature, of the
\* data signature, of the first record's header and of the header of the
\* nested TestStructB of an IntNest record.
FileSignatureAt == 0
DataSignatureAt == 8 + Len(persisted.types)
RecordAt == 16 + Len(persisted.types)
NestedHeaderAt == RecordAt + 7 + SizeOf("int32")

DamagedPlaces == {FileSignatureAt, DataSignatureAt, RecordAt, NestedHeaderAt}

DoDamageFile(pos) ==
    /\ ~Dead
    /\ file.exists
    /\ ~file.damaged
    /\ ~lastLoad.done
    /\ pos < Len(file.bytes)
    /\ file' = [file EXCEPT !.bytes[pos + 1] = (@ + 1) % TwoTo8,
                            !.damaged = TRUE]
    /\ UNCHANGED <<threads, scan, lookup, section, SerializeTypeIdCount, tid, otherTypes,
                   requested, writer, reader, written, persisted, lastLoad,
                   lastRead>>

InitDamage ==
    /\ Init
    /\ writer = NewIO(DefaultCap)
    /\ reader = NewIO(DefaultCap)

NextDamage ==
    \/ \E T \in AggTypes : \E value \in Values(T) :
          DoWriteTo(T, value, HashTestStructA)
    \/ DoWriteToFile
    \/ \E pos \in DamagedPlaces : DoDamageFile(pos)
    \/ \E u \in UninitBytes : DoReadFromFile(u)
    \/ \E T \in ReadTypes : \E u \in UninitBytes :
          DoReadFrom(T, HashTestStructA, u)

SpecDamage == InitDamage /\ [][NextDamage]_vars

-----------------------------------------------------------------------------
(* Lookups in the type section: a program that writes records, may save and *)
(* load them (the file possibly changed on disk in between), and then calls *)
(* FindIndexFromTypeId and ReadType on the writer's or the reader's type    *)
(* section.                                                                 *)

\* The bytes of the type-section entry of a type with the members of T.
EntrySize(T) == 7 + 4 * Len(Members(T))

\* The buffer_size that the type entries of one TestStructB fill exactly.
ExactCap == EntrySize("int32") + EntrySize("TestStructB")

LookupCaps == {ExactCap, DefaultCap}

\* The offsets in the file of the header and of the footer of the first
\* entry of the type section (the entry of int32).
TypeHeaderAt == 8
TypeFooterAt == 8 + EntrySize("int32") - 1

DamagedTypePlaces == {TypeHeaderAt, TypeFooterAt}

\* The type ids looked up: 0, every id handed out, and the next one.
LookupIds == 0..(SerializeTypeIdCount + 1)

\* The offsets ReadType is called with: where the writer recorded an entry.
LookupOffsets ==
    {0} \cup {writer.TypeSection.mRegisteredTypeIds[k].Offset :
                  k \in 1..Len(writer.TypeSection.mRegisteredTypeIds)}

Archives == {"writer", "reader"}

TypeSectionOf(on) ==
    IF on = "writer" THEN writer.TypeSection ELSE reader.TypeSection

\* on.TypeSection is what the call r left; before: what it was at the call.
LookedUp(on, op, arg, index, type, r) ==
    /\ ~Dead
    /\ on = "reader" => lastLoad.done
    /\ lookup.n < MaxLookups
    /\ lookup' = [n |-> lookup.n + 1, op |-> op, on |-> on, arg |-> arg,
                  index |-> index, type |-> type, log |-> r.log,
                  aborted |-> r.aborted, before |-> TypeSectionOf(on)]
    /\ writer' = IF on = "writer"
                 THEN [writer EXCEPT !.TypeSection = r.sec] ELSE writer
    /\ reader' = IF on = "reader"
                 THEN [reader EXCEPT !.TypeSection = r.sec] ELSE reader
    /\ UNCHANGED <<threads, scan, section, SerializeTypeIdCount, tid, otherTypes, requested,
                   file, written, persisted, lastLoad, lastRead>>

Found(on, id, r) ==
    LookedUp(on, "FindIndexFromTypeId", id, r.index, EmptyType, r)

\* on.TypeSection.FindIndexFromTypeId(id)
DoFindIndexFromTypeId(on, id, u) ==
    Found(on, id, FindIndexFromTypeId(TypeSectionOf(on), id, u))

TypeRead(on, index, r) ==
    LookedUp(on, "ReadType", index, 0, r.type, r)

\* on.TypeSection.ReadType(index)
DoReadType(on, index, u) ==
    TypeRead(on, index, ReadType(TypeSectionOf(on), index, u))

\* The program writes, saves and loads before it looks anything up.
BeforeLookups(A) == lookup.n = 0 /\ A

InitLookup ==
    /\ InitArchives(LookupCaps)
    /\ reader = NewIO(DefaultCap)
    /\ section = [sec |-> Create(SmallCap), writes |-> 0, text |-> NoText]

NextLookup ==
    \/ \E T \in AggTypes : \E value \in Values(T) :
          BeforeLookups(DoWriteTo(T, value, NoHash))
    \/ BeforeLookups(DoWriteToFile)
    \/ \E pos \in DamagedTypePlaces : BeforeLookups(DoDamageFile(pos))
    \/ \E u \in UninitBytes : BeforeLookups(DoReadFromFile(u))
    \/ \E on \in Archives : \E id \in LookupIds : \E u \in UninitBytes :
          DoFindIndexFromTypeId(on, id, u)
    \/ \E on \in Archives : \E index \in LookupOffsets : \E u \in UninitBytes :
          DoReadType(on, index, u)

SpecLookup == InitLookup /\ [][NextLookup]_vars

-----------------------------------------------------------------------------
(* The two lookups one step at a time, on the writer's type section: a turn *)
(* of the loop of FindIndexFromTypeId is a step, and so is, in ReadType,    *)
(* the handling of one member up to the call it makes and the return of a   *)
(* call.  scan.sec is the section as the running call sees it; scan.stack   *)
(* holds the ReadType calls in progress, the innermost last: the offset of  *)
(* the entry, old_index_, the members left to read and the tree so far.     *)

ScanDone(sc, sec, index, type, log, aborted) ==
    [pc |-> "done", op |-> sc.op, arg |-> sc.arg, u |-> sc.u, sec |-> sec,
     index |-> index, type |-> type, log |-> log, aborted |-> aborted]

\* writer.TypeSection.FindIndexFromTypeId(id) is entered.
BeginFind(id, u) ==
    /\ ~Dead
    /\ scan.pc = "idle"
    /\ scan' = [pc |-> "find", op |-> "FindIndexFromTypeId", arg |-> id,
                u |-> u, old |-> writer.TypeSection.Index,
                sec |-> [writer.TypeSection EXCEPT !.Index = 0],
                entry_index |-> 0, log |-> <<>>]
    /\ UNCHANGED <<SerializeTypeIdCount, tid, otherTypes, requested, writer,
                   reader, file, written, persisted, lastLoad, lastRead,
                   section, lookup, threads>>

\* After one turn r of the loop.
FindTurned(sc, r) ==
    IF r.again
    THEN [sc EXCEPT !.sec = r.sec, !.entry_index = r.index, !.log = r.log]
    ELSE ScanDone(sc, Reverted(Returned(r), sc.old).sec, r.index, EmptyType,
                  r.log, r.aborted)

\* The loop condition is tested and, if it holds, the body runs once.
FindStep ==
    /\ scan.pc = "find"
    /\ scan' = IF ~(scan.sec.Index < scan.sec.Size)
               THEN ScanDone(scan, [scan.sec EXCEPT !.Index = scan.old],
                             scan.entry_index, EmptyType, scan.log, FALSE)
               ELSE FindTurned(scan, FindTurn(scan.sec, scan.arg, scan.log,
                                              scan.u))
    /\ UNCHANGED <<SerializeTypeIdCount, tid, otherTypes, requested, writer,
                   reader, file, written, persisted, lastLoad, lastRead,
                   section, lookup, threads>>

\* A ReadType call returns `type` to its caller, Index put back to `old`:
\* the caller appends it to its Members, or the outermost call is over.
ReadReturn(sc, sec, type, log, old) ==
    IF sc.stack = <<>>
    THEN ScanDone(sc, [sec EXCEPT !.Index = old], 0, type, log, FALSE)
    ELSE [sc EXCEPT
            !.sec = [sec EXCEPT !.Index = old],
            !.log = log,
            !.stack[Len(sc.stack)].type.Members = Append(@, type),
            !.stack[Len(sc.stack)].left = @ - 1]

\* number_of_members has been read: the call goes on with its members.
ReadCallCount(sc, n, id, size, index, old) ==
    IF n.sec.Aborted
    THEN ScanDone(sc, n.sec, 0, EmptyType, sc.log, TRUE)
    ELSE [sc EXCEPT
            !.sec = n.sec,
            !.stack = Append(@, [index |-> index, old |-> old, left |-> n.v,
                                 type |-> [Id |-> id, Size |-> size,
                                           Members |-> <<>>]])]

ReadCallSize(sc, s, id, index, old) ==
    ReadCallCount(sc, Read8(s.sec, sc.u), id, s.v, index, old)

ReadCallId(sc, t, index, old) ==
    ReadCallSize(sc, Read16(t.sec, sc.u), t.v, index, old)

ReadCallHeader(sc, h, index, old) ==
    IF h.sec.Aborted
    THEN ScanDone(sc, h.sec, 0, EmptyType, sc.log, TRUE)
    ELSE IF h.v # TypeIdentHeader
    THEN ReadReturn(sc, h.sec, EmptyType,
                    Append(sc.log, "Sanity header does not match!"), old)
    ELSE ReadCallId(sc, Read16(h.sec, sc.u), index, old)

\* ReadType(index) is called with the section as sec: up to the return on
\* the header, or to the start of the loop over the members.
ReadCall(sc, sec, index) ==
    ReadCallHeader(sc, Read8([sec EXCEPT !.Index = index], sc.u), index,
                   sec.Index)

\* writer.TypeSection.ReadType(index) is entered.
BeginRead(index, u) ==
    /\ ~Dead
    /\ scan.pc = "idle"
    /\ scan' = ReadCall([pc |-> "read", op |-> "ReadType", arg |-> index,
                         u |-> u, sec |-> writer.TypeSection, log |-> <<>>,
                         stack |-> <<>>],
                        writer.TypeSection, index)
    /\ UNCHANGED <<SerializeTypeIdCount, tid, otherTypes, requested, writer,
                   reader, file, written, persisted, lastLoad, lastRead,
                   section, lookup, threads>>

\* member_index = FindIndexFromTypeId(member_id); ReadType(member_index)
ReadTurnFound(sc, found) ==
    IF found.aborted
    THEN ScanDone(sc, found.sec, 0, EmptyType, sc.log \o found.log, TRUE)
    ELSE ReadCall([sc EXCEPT !.log = @ \o found.log], found.sec, found.index)

\* Read16(); uint16 member_id = Read16();
ReadTurnMember(sc, m) ==
    IF m.sec.Aborted
    THEN ScanDone(sc, m.sec, 0, EmptyType, sc.log, TRUE)
    ELSE ReadTurnFound(sc, FindIndexFromTypeId(m.sec, m.v, sc.u))

\* The footer check of the innermost call `top`, and its return.
ReadTurnFooter(sc, f, top) ==
    IF f.sec.Aborted
    THEN ScanDone(sc, f.sec, 0, EmptyType, sc.log, TRUE)
    ELSE ReadReturn([sc EXCEPT !.stack = SubSeq(@, 1, Len(@) - 1)],
                    f.sec, top.type,
                    IF f.v # TypeIdentFooter
                    THEN Append(sc.log, "Sanity footer does not match!")
                    ELSE sc.log,
                    top.old)

ReadTurn(sc, top) ==
    IF top.left > 0
    THEN ReadTurnMember(sc, Read16(Read16(sc.sec, sc.u).sec, sc.u))
    ELSE ReadTurnFooter(sc, Read8(sc.sec, sc.u), top)

\* The innermost ReadType call handles its next member, or returns.
ReadStep ==
    /\ scan.pc = "read"
    /\ scan' = ReadTurn(scan, scan.stack[Len(scan.stack)])
    /\ UNCHANGED <<SerializeTypeIdCount, tid, otherTypes, requested, writer,
                   reader, file, written, persisted, lastLoad, lastRead,
                   section, lookup, threads>>

\* The entries the writer has recorded.
RegisteredOffsets ==
    {writer.TypeSection.mRegisteredTypeIds[k].Offset :
        k \in 1..Len(writer.TypeSection.mRegisteredTypeIds)}

\* The program writes its records before it looks anything up.
BeforeScan(A) == scan.pc = "idle" /\ A

NextScan ==
    \/ \E T \in AggTypes : \E value \in Values(T) :
          BeforeScan(DoWriteTo(T, value, NoHash))
    \/ \E id \in LookupIds : \E u \in UninitBytes : BeginFind(id, u)
    \/ FindStep
    \/ \E index \in RegisteredOffsets : \E u \in UninitBytes :
          BeginRead(index, u)
    \/ ReadStep

SpecScan == InitLookup /\ [][NextScan]_vars

-----------------------------------------------------------------------------
(* The registry on its own: a program that requests type ids, for a few     *)
(* named types under every qualification and for runs of further distinct   *)
(* types.                                                                   *)

RegistryTypes == {"int32", "TestStructB", "TestStructA"}
RunLengths == {1, TwoTo16 - 3}

InitRegistry ==
    /\ Init
    /\ writer = NewIO(DefaultCap)
    /\ reader = NewIO(DefaultCap)

Requested(reg, q) ==
    /\ SerializeTypeIdCount' = reg.Count
    /\ tid' = reg.tid
    /\ requested' =
          [n |-> IF requested.ord[q.base] = 0 THEN requested.n + 1 ELSE requested.n,
           ord |-> IF requested.ord[q.base] = 0
                   THEN [requested.ord EXCEPT ![q.base] = requested.n + 1]
                   ELSE requested.ord,
           first |-> IF requested.ord[q.base] = 0
                     THEN [requested.first EXCEPT ![q.base] = TypeIdOf(reg, q)]
                     ELSE requested.first,
           q |-> q, id |-> TypeIdOf(reg, q),
           seen |-> requested.ord[q.base] # 0,
           countBefore |-> SerializeTypeIdCount,
           countAfter |-> reg.Count]

\* FxSerializeUtil::GetTypeId<q>()
RequestTypeId(q) ==
    /\ Requested(GetTypeId(Registry, q), q)
    /\ UNCHANGED <<threads, scan, lookup, section, otherTypes, writer, reader, file, written, persisted,
                   lastLoad, lastRead>>

\* n distinct types not requested before each make their first request: each
\* runs ++SerializeTypeIdCount once.
GetTypeIdRun(reg, n) == [reg EXCEPT !.Count = (@ + n) % TwoTo16]

RequestOthers(n) ==
    /\ Len(otherTypes) < MaxBatches
    /\ otherTypes' = Append(otherTypes,
          [first |-> GetTypeIdRun(Registry, 1).Count, count |-> n,
           ord |-> requested.n + 1])
    /\ SerializeTypeIdCount' = GetTypeIdRun(Registry, n).Count
    /\ requested' = [requested EXCEPT !.n = @ + n]
    /\ UNCHANGED <<threads, scan, lookup, section, tid, writer, reader, file, written, persisted,
                   lastLoad, lastRead>>

NextRegistry ==
    \/ \E q \in [base : RegistryTypes, const : BOOLEAN, ref : BOOLEAN] :
          RequestTypeId(q)
    \/ \E n \in RunLengths : RequestOthers(n)

SpecRegistry == InitRegistry /\ [][NextRegistry]_vars

-----------------------------------------------------------------------------
(* The registry used by two threads: after some requests made by one        *)
(* thread, two threads each make the first GetTypeId request for a type of  *)
(* their own.  The counter is a plain uint16: its increment is a load and a *)
(* store that the other thread's may come between.                          *)

ThreadIds == {1, 2}

\* std::thread a(GetTypeId<T1>), b(GetTypeId<T2>); neither type has been
\* requested before.
StartThreads(T1, T2) ==
    /\ ~threads.started
    /\ T1 # T2
    /\ tid[Plain(T1)] = Unassigned
    /\ tid[Plain(T2)] = Unassigned
    /\ threads' = [started |-> TRUE, pc |-> <<"load", "load">>,
                   T |-> <<T1, T2>>, value |-> <<0, 0>>]
    /\ UNCHANGED <<SerializeTypeIdCount, tid, otherTypes, requested, writer,
                   reader, file, written, persisted, lastLoad, lastRead,
                   section, lookup, scan>>

\* Thread t loads SerializeTypeIdCount.
ThreadLoad(t) ==
    /\ threads.started
    /\ threads.pc[t] = "load"
    /\ threads' = [threads EXCEPT !.pc[t] = "store",
                                  !.value[t] = SerializeTypeIdCount]
    /\ UNCHANGED <<SerializeTypeIdCount, tid, otherTypes, requested, writer,
                   reader, file, written, persisted, lastLoad, lastRead,
                   section, lookup, scan>>

Stored(reg) ==
    /\ SerializeTypeIdCount' = reg.Count
    /\ tid' = reg.tid

\* Thread t stores the incremented value to the counter and to its tid.
ThreadStore(t) ==
    /\ threads.started
    /\ threads.pc[t] = "store"
    /\ Stored(StoreTypeId(Registry, Plain(threads.T[t]), threads.value[t]))
    /\ threads' = [threads EXCEPT !.pc[t] = "done"]
    /\ UNCHANGED <<otherTypes, requested, writer, reader, file, written,
                   persisted, lastLoad, lastRead, section, lookup, scan>>

\* The requests made before the threads are started.
BeforeThreads(A) == ~threads.started /\ A

NextRace ==
    \/ \E q \in [base : RegistryTypes, const : BOOLEAN, ref : BOOLEAN] :
          BeforeThreads(RequestTypeId(q))
    \/ \E T1, T2 \in RegistryTypes : StartThreads(T1, T2)
    \/ \E t \in ThreadIds : ThreadLoad(t)
    \/ \E t \in ThreadIds : ThreadStore(t)

SpecRace == InitRegistry /\ [][NextRace]_vars

-----------------------------------------------------------------------------
(* A section buffer on its own: a program that creates a section and calls  *)
(* its write methods directly, WriteBuffer with sizes up to the largest     *)
(* uint32 included.                                                         *)

SectionCaps == {SmallCap \div 4, SmallCap}

Bytes8 == {0, 171}
Bytes16 == {43981}
Bytes32 == {<<4660, 22136>>}

\* The buffers handed to WriteBuffer, by size: the bytes of each that can
\* land inside a section.
Buffers ==
    {[size |-> <<0, 0>>, data |-> <<>>],
     [size |-> <<0, 2>>, data |-> <<104, 105>>],
     [size |-> <<TwoTo16 - 1, TwoTo16 - 1>>,
      data |-> [k \in 1..(SmallCap + 1) |-> 65]]}

InitSection ==
    /\ InitProgram
    /\ writer = NewIO(DefaultCap)
    /\ reader = NewIO(DefaultCap)
    /\ section \in {[sec |-> Create(c), writes |-> 0, text |-> NoText] :
                         c \in SectionCaps}

SectionWritten(sec, text) ==
    /\ ~section.sec.Aborted
    /\ ~section.sec.Overran
    /\ section.writes < MaxWrites
    /\ section' = [sec |-> sec, writes |-> section.writes + 1, text |-> text]
    /\ UNCHANGED <<threads, scan, lookup, SerializeTypeIdCount, tid, otherTypes, requested,
                   writer, reader, file, written, persisted, lastLoad, lastRead>>

DoWrite8(value) == SectionWritten(Write8(section.sec, value), NoText)
DoWrite16(value) == SectionWritten(Write16(section.sec, value), NoText)
DoWrite32(value) == SectionWritten(Write32(section.sec, value), NoText)
DoWriteBuffer(b) ==
    SectionWritten(WriteBuffer(section.sec, b.size, b.data), NoText)

\* FxSerializeValue(writer, value) of a std::string, the section being the
\* writer's data section.
DoSerializeString(value) ==
    SectionWritten(
        FxSerializeValue([reg |-> Registry,
                          io |-> [writer EXCEPT !.DataSection = section.sec]],
                         "string", value).io.DataSection,
        [written |-> TRUE, start |-> section.sec.Index,
         size |-> U32OfIndex(Len(value))])

NextSection ==
    \/ \E value \in Bytes8 : DoWrite8(value)
    \/ \E value \in Bytes16 : DoWrite16(value)
    \/ \E value \in Bytes32 : DoWrite32(value)
    \/ \E b \in Buffers : DoWriteBuffer(b)

SpecSection == InitSection /\ [][NextSection]_vars

-----------------------------------------------------------------------------
(* Strings on their own: a program that serializes strings of several       *)
(* lengths into a data section large enough for them.                       *)

LongCap == TwoTo16 + 4
TextCaps == {SmallCap, LongCap}

\* The strings handed to FxSerializeValue.
Strings == {<<>>, <<104, 105>>, [k \in 1..TwoTo16 |-> 65]}

InitText ==
    /\ InitProgram
    /\ writer = NewIO(DefaultCap)
    /\ reader = NewIO(DefaultCap)
    /\ section \in {[sec |-> Create(c), writes |-> 0, text |-> NoText] :
                         c \in TextCaps}

NextText ==
    \/ \E value \in Bytes8 : DoWrite8(value)
    \/ \E value \in Strings : DoSerializeString(value)

SpecText == InitText /\ [][NextText]_vars

-----------------------------------------------------------------------------
(* Properties of reading records back.                                      *)

\* The persisted records that begin where the last ReadFrom began.
TargetRecords ==
    {k \in 1..Len(persisted.records) :
        persisted.records[k].start = lastRead.start}

\* The last ReadFrom read the k-th persisted record from its first byte,
\* out of a reader that loaded the file whole, as the record's own type.
ReadBack(k) ==
    /\ lastRead.n > 0
    /\ k \in TargetRecords
    /\ lastLoad.log = <<>>
    /\ lastRead.outcome # "Aborted"
    /\ lastRead.T = persisted.records[k].T

RECURSIVE IntOnly(_)
IntOnly(T) ==
    IF T \in PrimTypes THEN T = "int32"
    ELSE \A i \in 1..Len(Members(T)) : IntOnly(Members(T)[i])

\* C1: a record of any registered shape (integer, float, string and nested
\* aggregate members) that is written, saved, loaded and read back under the
\* name hash it was written with gives the destination the values written.
RoundTripAllKinds ==
    \A k \in 1..Len(persisted.records) :
        ReadBack(k) /\ lastRead.name_hash = persisted.records[k].name_hash
            => lastRead.after = persisted.records[k].value

\* C2: a record whose members are 32-bit integers and aggregates of such,
\* written under a non-zero name hash, saved, loaded and read back under that
\* hash, gives the destination the values written.
RoundTripIntegers ==
    \A k \in 1..Len(persisted.records) :
        /\ ReadBack(k)
        /\ IntOnly(persisted.records[k].T)
        /\ persisted.records[k].name_hash # NoHash
        /\ lastRead.name_hash = persisted.records[k].name_hash
        => /\ lastRead.outcome = "Done"
           /\ lastRead.after = persisted.records[k].value

\* A nested all-integer record, negative and above-16-bit values included,
\* has been read back under its non-zero hash.
RoundTripIntegersWitness ==
    \E k \in 1..Len(persisted.records) :
        /\ ReadBack(k)
        /\ persisted.records[k].T = "IntNest"
        /\ persisted.records[k].name_hash # NoHash
        /\ lastRead.name_hash = persisted.records[k].name_hash
        /\ lastRead.after = <<70000, <<-1, 10>>, -2>>
        /\ lastRead.end = persisted.records[k].end

\* C3: whatever hash s a record stores (0 included), reading it with a
\* requested hash r that is neither 0 nor s reports a name mismatch and
\* leaves the destination as it was.
MismatchRejected ==
    \A k \in 1..Len(persisted.records) :
        /\ ReadBack(k)
        /\ lastRead.name_hash # NoHash
        /\ lastRead.name_hash # persisted.records[k].name_hash
        => /\ lastRead.outcome = "NameMismatch"
           /\ lastRead.after = lastRead.before

\* C4: reading a record with requested hash 0 passes the name check and
\* decodes the fields, whatever hash the record stores.
ZeroRequestPasses ==
    \A k \in 1..Len(persisted.records) :
        ReadBack(k) /\ lastRead.name_hash = NoHash
            => /\ lastRead.outcome # "NameMismatch"
               /\ IntOnly(lastRead.T) => lastRead.after = persisted.records[k].value

-----------------------------------------------------------------------------
(* Properties of the type section.                                          *)

\* The entries of a type section's written part [0, Index), as the format
\* lays them out: header, id, size, member count, (size, id) per member,
\* footer.
RECURSIVE ScanEntries(_, _)
ScanEntries(sec, pos) ==
    IF pos >= sec.Index THEN <<>>
    ELSE <<[Id |-> sec.Data[pos + 2] * TwoTo8 + sec.Data[pos + 3],
            Offset |-> pos]>>
         \o ScanEntries(sec, pos + 7 + 4 * sec.Data[pos + 6])

\* T and the types of its members, nested ones included.
RECURSIVE TypesOf(_)
TypesOf(T) ==
    {T} \cup UNION {TypesOf(Members(T)[i]) : i \in 1..Len(Members(T))}

RegisteredIds ==
    {TypeIdOf(Registry, Plain(K)) :
        K \in UNION {TypesOf(written[k].T) : k \in 1..Len(written)}}

EntryIds(es) == {es[i].Id : i \in 1..Len(es)}

OneEntryPerId(es) ==
    /\ \A i, j \in 1..Len(es) : es[i].Id = es[j].Id => i = j
    /\ EntryIds(es) = RegisteredIds

\* C5: after any number N >= 1 of WriteTo calls on one archive that all
\* completed, the written part of its type section holds exactly one entry
\* for each type id registered (the records' types and their member types)
\* and no two entries with the same id.
SchemaDedup ==
    Len(written) >= 1 /\ ~writer.TypeSection.Aborted
        => OneEntryPerId(ScanEntries(writer.TypeSection, 0))

\* Two records of the same four-type shape have been written.
SchemaDedupWitness ==
    /\ Len(written) = 2
    /\ written[1].T = "TestStructA"
    /\ written[2].T = "TestStructA"
    /\ ~writer.TypeSection.Aborted
    /\ ~writer.DataSection.Aborted
    /\ Len(ScanEntries(writer.TypeSection, 0)) = 4

-----------------------------------------------------------------------------
(* Properties of the type-id registry.                                      *)

MaxTypeIds == TwoTo16 - 1

\* id is one of the ids of the run r of types.
InRun(id, r) == (id - r.first) % TwoTo16 < r.count

NamedRequested == {T \in Types : requested.ord[T] # 0}

\* No two distinct types requested so far share an id, and none has id 0.
IdsUnique ==
    /\ \A T \in NamedRequested : requested.first[T] # 0
    /\ \A T, T2 \in NamedRequested :
          requested.first[T] = requested.first[T2] => T = T2
    /\ \A i \in 1..Len(otherTypes) :
          /\ ~InRun(0, otherTypes[i])
          /\ \A T \in NamedRequested : ~InRun(requested.first[T], otherTypes[i])
          /\ \A j \in 1..Len(otherTypes) :
                i # j => ~InRun(otherTypes[i].first, otherTypes[j])

\* C6 as stated: for any number of distinct types requested, no two of them
\* share an id and none has the reserved id 0.
UniqueForAnyNumber == IdsUnique

\* C6, amended: while at most 65535 distinct types have been requested, no
\* two of them share an id and none has the reserved id 0.
UniqueUpToCeiling == requested.n <= MaxTypeIds => IdsUnique

\* 65535 distinct types have been requested, named ones and runs of others,
\* and a named one holds the last id.
UniqueUpToCeilingWitness ==
    /\ requested.n = MaxTypeIds
    /\ Len(otherTypes) > 0
    /\ \E T \in NamedRequested : requested.first[T] = MaxTypeIds

\* The k-th distinct type requested, for the k in `ords`, has id k.
Sequential(ords) ==
    /\ \A T \in NamedRequested :
          requested.ord[T] \in ords => requested.first[T] = requested.ord[T]
    /\ \A i \in 1..Len(otherTypes) :
          otherTypes[i].ord \in ords => otherTypes[i].first = otherTypes[i].ord

\* A request for a type seen before, however qualified, returns the id of
\* its first request and leaves the counter alone.
Stable ==
    requested.seen =>
        /\ requested.id = requested.first[requested.q.base]
        /\ requested.countAfter = requested.countBefore

\* C7 as stated: the k-th distinct type requested gets id k, for every k,
\* and later requests for it return that id without advancing the counter.
SequentialForEveryK == Sequential(1..requested.n) /\ Stable

\* C7, amended: the k-th distinct type requested gets id k for k up to
\* 65535, and later requests for a type, with or without const/reference
\* qualifiers, return its first id without advancing the counter.
SequentialUpToCeiling == Sequential(1..MaxTypeIds) /\ Stable

\* A type first requested after others has been requested again under a
\* qualifier.
SequentialUpToCeilingWitness ==
    /\ requested.seen
    /\ requested.q.const
    /\ requested.q.ref
    /\ requested.ord[requested.q.base] > 1
    /\ requested.id = requested.ord[requested.q.base]

-----------------------------------------------------------------------------
(* Properties of the section buffers and of the file.                       *)

\* C8: in every state reached by Write8, Write16, Write32 and WriteBuffer on
\* a section created with capacity Size, Index <= Size and no byte has been
\* stored at an offset >= Size.
CapacityEnforced ==
    /\ section.sec.Index <= section.sec.Size
    /\ Len(section.sec.Data) <= section.sec.Size
    /\ ~section.sec.Overran

\* The file is the six parts in order, with the lengths and bytes the
\* writer's sections had when it was saved.
FileLayout(f, types, data) ==
    /\ Len(f) = 16 + Len(types) + Len(data)
    /\ SubSeq(f, 1, 4) = HostBytes(FX_SERIALIZER_IO_FILE_SIGNATURE)
    /\ HostU32(SubSeq(f, 5, 8)) = U32OfIndex(Len(types))
    /\ SubSeq(f, 9, 8 + Len(types)) = types
    /\ SubSeq(f, 9 + Len(types), 12 + Len(types))
          = HostBytes(FX_SERIALIZER_IO_SECTION_DATA_SIGNATURE)
    /\ HostU32(SubSeq(f, 13 + Len(types), 16 + Len(types))) = U32OfIndex(Len(data))
    /\ SubSeq(f, 17 + Len(types), Len(f)) = data

\* The reader's buffers are at least as large as the persisted sections.
Fits ==
    /\ Len(persisted.types) <= reader.TypeSection.Size
    /\ Len(persisted.data) <= reader.DataSection.Size

\* C9: WriteToFile emits the file signature, the type-section length, the
\* type bytes [0, Index), the data signature, the data-section length and the
\* data bytes [0, Index), in this order; ReadFromFile of that file into a
\* fresh archive whose capacity is at least both lengths leaves the first
\* length bytes of its two buffers equal to the persisted bytes.
PersistLoadRoundTrip ==
    /\ persisted.done => FileLayout(file.bytes, persisted.types, persisted.data)
    /\ persisted.done /\ lastLoad.done /\ Fits
          => /\ lastLoad.log = <<>>
             /\ SubSeq(reader.TypeSection.Data, 1, Len(persisted.types))
                   = persisted.types
             /\ SubSeq(reader.DataSection.Data, 1, Len(persisted.data))
                   = persisted.data

\* A file holding a record has been loaded into a reader of the small
\* capacity, which it fits.
PersistLoadRoundTripWitness ==
    /\ persisted.done
    /\ lastLoad.done
    /\ Fits
    /\ reader.DataSection.Size = SmallCap
    /\ Len(persisted.types) > 0
    /\ Len(persisted.data) > 0
    /\ Len(persisted.types) # Len(persisted.data)
    /\ SubSeq(reader.DataSection.Data, 1, Len(persisted.data)) = persisted.data

\* C10: when a section length stored in the file is greater than the
\* capacity of the buffer it is loaded into, ReadFromFile rejects the file
\* and stores no byte beyond the buffer's capacity.
OversizeRejected ==
    persisted.done /\ lastLoad.done /\ ~Fits
        => /\ lastLoad.log # <<>>
           /\ ~reader.TypeSection.Overran
           /\ ~reader.DataSection.Overran

-----------------------------------------------------------------------------
(* Properties of the record encoding.                                       *)

\* C13: a ReadFrom of a record from its first byte, as the record's type and
\* under its hash, consumes as many data-section bytes as the WriteTo that
\* wrote it produced, so that the cursor ends where the next record begins.
CursorsInStep ==
    \A k \in 1..Len(persisted.records) :
        ReadBack(k) /\ lastRead.name_hash = persisted.records[k].name_hash
            => lastRead.end = persisted.records[k].end

BE16(n) == <<(n \div TwoTo8) % TwoTo8, n % TwoTo8>>
BE32(v) == BE16(v[1]) \o BE16(v[2])

\* The bytes of a primitive field.
FieldBytes(K, v) ==
    CASE K = "int32" -> BE32(U32OfInt32(v))
      [] K = "float32" -> BE32(U32OfFloat(v))
      [] K = "string" -> BE16(Len(v) % TwoTo16) \o v

RecordHeader(T, name_hash) ==
    <<DataIdentHeader>> \o BE16(TypeIdOf(Registry, Plain(T))) \o BE32(name_hash)

\* The fields of a value with every nested aggregate written as a record of
\* its own, under name hash 0.
RECURSIVE FramedFields(_, _, _)
FramedFields(T, value, i) ==
    IF i > Len(Members(T)) THEN <<>>
    ELSE (IF Members(T)[i] \in PrimTypes
          THEN FieldBytes(Members(T)[i], value[i])
          ELSE RecordHeader(Members(T)[i], NoHash)
               \o FramedFields(Members(T)[i], value[i], 1)
               \o <<DataIdentFooter>>)
         \o FramedFields(T, value, i + 1)

\* The fields of a value with nested aggregates contributing their field
\* bytes only.
RECURSIVE InlineFields(_, _, _)
InlineFields(T, value, i) ==
    IF i > Len(Members(T)) THEN <<>>
    ELSE (IF Members(T)[i] \in PrimTypes
          THEN FieldBytes(Members(T)[i], value[i])
          ELSE InlineFields(Members(T)[i], value[i], 1))
         \o InlineFields(T, value, i + 1)

\* The bytes the k-th WriteTo left in the writer's data section.
RecordBytes(k) ==
    SubSeq(writer.DataSection.Data, written[k].start + 1, written[k].end)

\* C14 as stated: one WriteTo emits exactly one header and one footer;
\* nested aggregate fields contribute only their field bytes.
OnlyOuterFramed ==
    ~writer.TypeSection.Aborted /\ ~writer.DataSection.Aborted =>
        \A k \in 1..Len(written) :
            RecordBytes(k) = RecordHeader(written[k].T, written[k].name_hash)
                             \o InlineFields(written[k].T, written[k].value, 1)
                             \o <<DataIdentFooter>>

\* C14, amended: one WriteTo emits the record's header, its fields in
\* declared order and its footer, where every nested aggregate field is a
\* complete record of its own: header with its type id and name hash 0, its
\* fields, footer.
EveryAggregateFramed ==
    ~writer.TypeSection.Aborted /\ ~writer.DataSection.Aborted =>
        \A k \in 1..Len(written) :
            RecordBytes(k) = RecordHeader(written[k].T, written[k].name_hash)
                             \o FramedFields(written[k].T, written[k].value, 1)
                             \o <<DataIdentFooter>>

\* A record with a nested aggregate between two integers has been written;
\* the nested header is at offset 11 of the record.
EveryAggregateFramedWitness ==
    /\ ~writer.TypeSection.Aborted
    /\ ~writer.DataSection.Aborted
    /\ \E k \in 1..Len(written) :
          /\ written[k].T = "IntNest"
          /\ RecordBytes(k)[12] = DataIdentHeader
          /\ Len(RecordBytes(k)) = 32

AltTypeIds == {0, 1, TwoTo16 - 1}

\* The reader's data section as the last ReadFrom found it, with the type id
\* of the header at the cursor replaced.
TwinSection(type_id) ==
    [reader.DataSection EXCEPT
        !.Index = lastRead.start,
        !.Data = [@ EXCEPT ![lastRead.start + 2] = BE16(type_id)[1],
                           ![lastRead.start + 3] = BE16(type_id)[2]]]

SameAsLastRead(r) ==
    /\ r.outcome = lastRead.outcome
    /\ r.dest = lastRead.after
    /\ r.sec.Index = lastRead.end

\* C20: a ReadFrom of a record gives the same outcome, the same decoded
\* values and the same final cursor on a data section that differs only in
\* the type id of that record's header.
TypeIdIgnored ==
    lastRead.n > 0 /\ lastLoad.log = <<>> /\ TargetRecords # {} =>
        \A type_id \in AltTypeIds : \E u \in UninitBytes :
            SameAsLastRead(ReadFrom(TwinSection(type_id), <<>>, lastRead.name_hash,
                                    lastRead.T, lastRead.before, u))

\* A record has been read in full from its first byte; its stored type id
\* is none of the replaced ones.
TypeIdIgnoredWitness ==
    /\ lastRead.n > 0
    /\ lastLoad.log = <<>>
    /\ TargetRecords # {}
    /\ lastRead.outcome = "Done"
    /\ lastRead.after # lastRead.before
    /\ TypeIdOf(Registry, Plain(lastRead.T)) \notin AltTypeIds

-----------------------------------------------------------------------------
(* Properties of the text encoding.                                         *)

\* The 16-bit big-endian number at offset o of the section.
U16At(sec, o) == sec.Data[o + 1] * TwoTo8 + sec.Data[o + 2]

\* C15: a string that FxSerializeValue has written is a 16-bit big-endian
\* length followed by the raw bytes, and that length is the number of raw
\* bytes that follow it, whatever the string's length.
TextLengthExact ==
    section.text.written /\ ~section.sec.Aborted =>
        /\ section.sec.Index - (section.text.start + 2)
              = IndexOfU32(section.text.size)
        /\ U16At(section.sec, section.text.start)
              = section.sec.Index - (section.text.start + 2)

-----------------------------------------------------------------------------
(* Properties of reading a damaged file.                                    *)

\* C11: whenever ReadFromFile fails (on the file signature, on the data
\* signature or on opening the file), the contents and cursors of the type
\* section and of the data section are what they were before the call.
LoadAtomic ==
    lastLoad.done /\ lastLoad.log # <<>> /\ lastRead.n = 0
        => reader = lastLoad.before

\* The members of the destination after the i-th are as they were before
\* the last ReadFrom.
NoFieldAfter(i) ==
    \A j \in (i + 1)..Len(lastRead.after) :
        lastRead.after[j] = lastRead.before[j]

HeaderFailed ==
    \E k \in 1..Len(lastRead.log) : lastRead.log[k] = "Header is incorrect!"

\* C16: whenever a header marker read during ReadFrom is not 0x0B, at the
\* outer record or at a nested aggregate member, the ReadFrom as a whole
\* ends with the header-failure outcome and decodes no member of the
\* destination that comes after the failing one.
HeaderStopsDecoding ==
    lastRead.n > 0 /\ HeaderFailed
        => /\ lastRead.outcome = "HeaderIncorrect"
           /\ \E i \in 0..Len(Members(lastRead.T)) :
                 /\ i > 0 => Members(lastRead.T)[i] \in AggTypes
                 /\ NoFieldAfter(i)

-----------------------------------------------------------------------------
(* Properties of the lookups in the type section.                           *)

\* The tree of T as the declarations give it: the id and sizeof of T and,
\* in declared order, the trees of its members.
RECURSIVE TreeOf(_)
TreeOf(T) ==
    [Id |-> TypeIdOf(Registry, Plain(T)), Size |-> SizeOf(T),
     Members |-> [i \in 1..Len(Members(T)) |-> TreeOf(Members(T)[i])]]

\* The aggregates whose entry the writer recorded at this offset.
RegisteredAt(offset) ==
    {T \in AggTypes :
        \E k \in 1..Len(writer.TypeSection.mRegisteredTypeIds) :
            writer.TypeSection.mRegisteredTypeIds[k]
                = [Id |-> TypeIdOf(Registry, Plain(T)), Offset |-> offset]}

\* The section looked up holds what the writer wrote: it is the writer's,
\* or the reader's after the unchanged file was loaded.
LookedUpIntact ==
    /\ lookup.n > 0
    /\ ~writer.TypeSection.Aborted
    /\ lookup.on = "reader" => ~file.damaged /\ lastLoad.log = <<>>

\* C12: for any aggregate type registered by WriteTo, ReadType at the offset
\* of its entry returns a node with the aggregate's id and size and one child
\* per declared member, in declared order, child i carrying the id and size
\* recorded for the type of member i, nested aggregates resolved the same
\* way.
SchemaTreeResolved ==
    LookedUpIntact /\ lookup.op = "ReadType"
        => \A T \in RegisteredAt(lookup.arg) :
              /\ lookup.type = TreeOf(T)
              /\ lookup.log = <<>>
              /\ ~lookup.aborted

\* ReadType has returned the tree of TestStructA, whose last member is a
\* nested TestStructB, from the section loaded by the reader.
SchemaTreeResolvedWitness ==
    /\ LookedUpIntact
    /\ lookup.op = "ReadType"
    /\ lookup.on = "reader"
    /\ "TestStructA" \in RegisteredAt(lookup.arg)
    /\ Len(lookup.type.Members) = 4
    /\ Len(lookup.type.Members[4].Members) = 2

\* The entry at this offset has its header marker and this id.
EntryOf(ts, offset, id, u) ==
    /\ offset + 3 <= ts.Size
    /\ ByteAt(ts, offset, u) = TypeIdentHeader
    /\ ByteAt(ts, offset + 1, u) * TwoTo8 + ByteAt(ts, offset + 2, u) = id

\* FindIndexFromTypeId(id) on this section returns this index for an entry
\* of id that it found, having met no marker mismatch.
FoundAt(ts, id, index, u) ==
    /\ FindIndexFromTypeId(ts, id, u)
          = [sec |-> ts, index |-> index, log |-> <<>>, aborted |-> FALSE]
    /\ EntryOf(ts, index, id, u)

\* C17: when FindIndexFromTypeId meets a byte other than 0xEF where an entry
\* header is expected, or other than 0xBE where an entry footer is expected,
\* what it returns can be told apart from a found offset: it is not an index
\* that the lookup of some id returns for an entry it found.
LookupReportsCorruption ==
    lookup.op = "FindIndexFromTypeId" /\ lookup.log # <<>>
        => \A id \in LookupIds : \A u \in UninitBytes :
              ~FoundAt(TypeSectionOf(lookup.on), id, lookup.index, u)

\* The last call was FindIndexFromTypeId of an id without an entry.
LookedUpAbsent ==
    /\ LookedUpIntact
    /\ lookup.op = "FindIndexFromTypeId"
    /\ ~lookup.aborted
    /\ lookup.arg \notin EntryIds(ScanEntries(writer.TypeSection, 0))

\* C18: for a type id that has no entry in the type section (an empty
\* section and a section whose entries fill the buffer exactly included),
\* FindIndexFromTypeId never returns the offset of an entry that belongs to
\* a different type id.
AbsentIdReported ==
    LookedUpAbsent
        => \A k \in 1..Len(ScanEntries(writer.TypeSection, 0)) :
              ScanEntries(writer.TypeSection, 0)[k].Offset # lookup.index

\* The member ids listed in the entry at offset pos of a written section.
MemberIdsOf(sec, pos) ==
    {sec.Data[pos + 9 + 4 * k] * TwoTo8 + sec.Data[pos + 10 + 4 * k] :
        k \in 0..(sec.Data[pos + 6] - 1)}

\* Every member id an entry lists has its own entry at a lower offset.
MembersFirst(sec, es) ==
    \A k \in 1..Len(es) : \A m \in MemberIdsOf(sec, es[k].Offset) :
        \E j \in 1..Len(es) : es[j].Id = m /\ es[j].Offset < es[k].Offset

\* FindIndexFromTypeId of every id recorded returns the offset recorded.
FoundWhereRecorded(ts) ==
    \A k \in 1..Len(ts.mRegisteredTypeIds) : \A u \in UninitBytes :
        FindIndexFromTypeId(ts, ts.mRegisteredTypeIds[k].Id, u)
            = [sec |-> ts, index |-> ts.mRegisteredTypeIds[k].Offset,
               log |-> <<>>, aborted |-> FALSE]

\* C19: after any sequence of WriteTo calls on one archive that completed,
\* every member type id listed inside a type-section entry has its own entry
\* at a strictly lower offset than the entry that lists it, and
\* FindIndexFromTypeId of every registered id returns the start offset
\* recorded for it when it was written.
MembersBeforeOwner ==
    ~writer.TypeSection.Aborted /\ ~writer.TypeSection.Overran
        => /\ MembersFirst(writer.TypeSection,
                           ScanEntries(writer.TypeSection, 0))
           /\ FoundWhereRecorded(writer.TypeSection)
           /\ lookup.op = "FindIndexFromTypeId" /\ lookup.on = "writer"
                 => \A k \in 1..Len(writer.TypeSection.mRegisteredTypeIds) :
                       writer.TypeSection.mRegisteredTypeIds[k].Id = lookup.arg
                           => writer.TypeSection.mRegisteredTypeIds[k].Offset
                                  = lookup.index

\* Two records with a nested TestStructB have been written and the entry of
\* TestStructA, which lists it, has been looked up on the writer.
MembersBeforeOwnerWitness ==
    /\ Len(written) = 2
    /\ ~writer.TypeSection.Aborted
    /\ lookup.op = "FindIndexFromTypeId"
    /\ lookup.on = "writer"
    /\ lookup.arg = TypeIdOf(Registry, Plain("TestStructA"))
    /\ [Id |-> lookup.arg, Offset |-> lookup.index]
          \in {writer.TypeSection.mRegisteredTypeIds[k] :
                  k \in 1..Len(writer.TypeSection.mRegisteredTypeIds)}
    /\ TypeIdOf(Registry, Plain("TestStructB"))
          \in MemberIdsOf(writer.TypeSection, lookup.index)
    /\ lookup.index > 0

-----------------------------------------------------------------------------
(* Properties of failed reads.                                              *)

\* C24: a ReadFrom that fails the name-hash check leaves the destination
\* unmodified and the data cursor 7 bytes after the record's start; one that
\* fails the header-marker check leaves the cursor 1 byte after it; the
\* cursor is not put back, so the next ReadFrom begins inside the record.
FailedReadNotRewound ==
    /\ lastRead.outcome = "NameMismatch"
          => /\ lastRead.after = lastRead.before
             /\ lastRead.end = lastRead.start + 7
             /\ reader.DataSection.Index = lastRead.end
    /\ lastRead.outcome = "HeaderIncorrect"
          => /\ lastRead.end = lastRead.start + 1
             /\ reader.DataSection.Index = lastRead.end

\* The first ReadFrom failed the name-hash check at offset 0; the second
\* began at offset 7, inside that record, and failed the header check.
FailedReadNotRewoundWitness ==
    /\ lastRead.n = 2
    /\ lastRead.start = 7
    /\ lastRead.outcome = "HeaderIncorrect"
    /\ reader.DataSection.Index = 8

-----------------------------------------------------------------------------
(* The frame of the lookups.                                                *)

\* C22: FindIndexFromTypeId and ReadType, the recursive calls and the early
\* returns on a marker mismatch included, leave the type section's Index
\* equal to its value before the call, and change no byte of the buffer and
\* no entry of mRegisteredTypeIds.
LookupsKeepCursor ==
    lookup.n > 0 /\ ~lookup.aborted
        => /\ TypeSectionOf(lookup.on).Index = lookup.before.Index
           /\ TypeSectionOf(lookup.on).Data = lookup.before.Data
           /\ TypeSectionOf(lookup.on).mRegisteredTypeIds
                 = lookup.before.mRegisteredTypeIds

\* ReadType has resolved an aggregate with a nested aggregate member on the
\* writer, whose Index is past its entries.
LookupsKeepCursorWitness ==
    /\ lookup.n > 0
    /\ ~lookup.aborted
    /\ lookup.op = "ReadType"
    /\ lookup.on = "writer"
    /\ lookup.before.Index > 0
    /\ Len(lookup.type.Members) > 2
    /\ \E i \in 1..Len(lookup.type.Members) :
          Len(lookup.type.Members[i].Members) > 0

-----------------------------------------------------------------------------
(* Properties of the registry used by two threads.                          *)

BothDone == threads.started /\ threads.pc = <<"done", "done">>

\* C21: when two threads concurrently make the first GetTypeId request for
\* two distinct types, the increment of the shared counter is not atomic:
\* in the interleavings in which both threads load the counter before either
\* stores, both types are assigned the same id and the counter has advanced
\* by one only.
RegistryRace ==
    BothDone /\ threads.value[1] = threads.value[2]
        => /\ tid[Plain(threads.T[1])] = tid[Plain(threads.T[2])]
           /\ SerializeTypeIdCount = (threads.value[1] + 1) % TwoTo16

\* Both threads have finished and their two distinct types have the same id.
RegistryRaceWitness ==
    /\ BothDone
    /\ threads.T[1] # threads.T[2]
    /\ tid[Plain(threads.T[1])] # Unassigned
    /\ tid[Plain(threads.T[1])] = tid[Plain(threads.T[2])]

-----------------------------------------------------------------------------
(* Properties of going on with a loaded archive.                            *)

\* The file was saved by the writer and loaded without a message.
LoadedWhole ==
    /\ persisted.done
    /\ lastLoad.done
    /\ lastLoad.log = <<>>
    /\ Fits

\* C23: after ReadFromFile of a file with section lengths Lt and Ld into a
\* fresh archive, a WriteToFile issued next writes the same lengths and the
\* same section bytes as the loaded file, and a WriteTo issued next appends
\* after the loaded entries and records instead of overwriting them.
LoadRestoresState ==
    /\ LoadedWhole /\ lastLoad.next = "WriteToFile"
          => FileLayout(file.bytes, persisted.types, persisted.data)
    /\ LoadedWhole /\ lastLoad.next = "WriteTo" /\ ~Dead
          => /\ SubSeq(reader.TypeSection.Data, 1, Len(persisted.types))
                   = persisted.types
             /\ SubSeq(reader.DataSection.Data, 1, Len(persisted.data))
                   = persisted.data
             /\ reader.DataSection.Index > Len(persisted.data)

-----------------------------------------------------------------------------
(* Termination of the lookups.                                              *)

\* Each ReadType call in progress is at an entry at a lower offset than the
\* entry of the call that made it.
LowerOffsets ==
    scan.pc = "read"
        => \A k \in 1..(Len(scan.stack) - 1) :
              scan.stack[k + 1].index < scan.stack[k].index

\* A turn of the loop of FindIndexFromTypeId that does not leave the loop
\* moves Index at least 7 bytes on, and not past Size.
FindAdvances ==
    scan.pc = "find" /\ scan'.pc = "find"
        => /\ scan'.sec.Index >= scan.sec.Index + 7
           /\ scan'.sec.Index <= scan.sec.Size

\* The frames of the calls in progress below the innermost k are unchanged.
SameBelow(k) ==
    SubSeq(scan'.stack, 1, k - 1) = SubSeq(scan.stack, 1, k - 1)

\* A step of ReadType that does not end the outermost call either makes a
\* call, to an entry at a lower offset, or takes one member off the list of
\* the call that is then the innermost, the calls below it unchanged.
ReadProgress ==
    scan.pc = "read" /\ scan'.pc = "read"
        => \/ /\ Len(scan'.stack) = Len(scan.stack) + 1
              /\ SameBelow(Len(scan'.stack))
              /\ scan'.stack[Len(scan'.stack)].index
                    < scan.stack[Len(scan.stack)].index
           \/ /\ Len(scan'.stack) \in {Len(scan.stack) - 1, Len(scan.stack)}
              /\ SameBelow(Len(scan'.stack))
              /\ scan'.stack[Len(scan'.stack)].left
                    = scan.stack[Len(scan'.stack)].left - 1
              /\ scan'.stack[Len(scan'.stack)].left >= 0

\* A lookup in progress has read nothing past Size.
ScanInside ==
    scan.pc \in {"find", "read"}
        => ~scan.sec.Aborted /\ scan.sec.Index <= scan.sec.Size

\* A lookup that is over has returned what the call returns.
ScanResult ==
    scan.pc = "done"
        => /\ scan.op = "FindIndexFromTypeId"
                 => FindIndexFromTypeId(writer.TypeSection, scan.arg, scan.u)
                       = [sec |-> scan.sec, index |-> scan.index,
                          log |-> scan.log, aborted |-> scan.aborted]
           /\ scan.op = "ReadType"
                 => ReadType(writer.TypeSection, scan.arg, scan.u)
                       = [sec |-> scan.sec, type |-> scan.type,
                          log |-> scan.log, aborted |-> scan.aborted]

\* C25: on a type section built only by WriteTo calls, ReadType started at
\* any registered entry terminates: each recursive call goes to an entry at
\* a strictly lower offset, and every other step takes a member off the list
\* of a call in progress; FindIndexFromTypeId terminates for every id: each
\* turn of its loop either leaves the loop or moves Index at least 7 bytes
\* towards Size.  Both end with what the call returns.
SchemaReadsTerminate ==
    /\ []LowerOffsets
    /\ []ScanInside
    /\ [][FindAdvances]_vars
    /\ [][ReadProgress]_vars
    /\ []ScanResult

\* ReadType of the entry of TestStructA has returned its tree, the nested
\* TestStructB resolved by a recursive call.
SchemaReadsTerminateWitness ==
    /\ scan.pc = "done"
    /\ scan.op = "ReadType"
    /\ ~scan.aborted
    /\ scan.arg > 0
    /\ Len(scan.type.Members) = 4
    /\ Len(scan.type.Members[4].Members) = 2

====
